---- MODULE Spec2Model ----
(***************************************************************************)
(* Daily finance-lesson pipeline (tools/wealth): the topic catalog loader, *)
(* the candidate selector, the four-stage generation pipeline with bounded *)
(* retries, and the rolling history store with monthly archives.           *)
(*                                                                         *)
(* Modelling conventions                                                   *)
(*   - an ISO date string "YYYY-MM-DD" is the tuple <<y, m, d>>; a missing *)
(*     or empty date is <<>>; "YYYY-MM" (slice(0, 7)) is <<y, m>>;         *)
(*   - an optional object field is a record field that may be absent;      *)
(*   - a file is [state, items]: absent, partial (being written) or        *)
(*     complete with a JSON array of entries;                              *)
(*   - a path is [file, month, tmp].                                       *)
(***************************************************************************)
EXTENDS Integers, Sequences, FiniteSets, TLC

VARIABLES
    clock,      \* the wall clock, in days since 2025-01-31 (new Date())
    fs,         \* the file system: path -> file
    pc,         \* where the process stands: idle, main, llm, sleep, update, roll,
                \* persist, write, exited, killed
    exitCode,   \* the process exit code once pc = "exited"
    dryRun,     \* process.argv.includes("--dry-run")
    apiKey,     \* LLM_API_KEY || DEEPSEEK_API_KEY is set
    candidates, \* main: flattenTopics(topicsRaw)
    history,    \* main: the live history loaded at the start of the run
    todayStr,   \* main: today()
    candidate,  \* main: pickCandidate(candidates, history)
    attempts,   \* main: failed pipeline attempts so far
    stage,      \* generateLesson: the stage whose response is awaited
    draft,      \* generateLesson: the parsed draft
    critique,   \* generateLesson: the parsed critique
    lesson,     \* main: coerceLesson(candidate, content, todayStr)
    kept,       \* rollWindowAndArchive: the entries that stay live
    archived,   \* rollWindowAndArchive: evicted entries still to archive
    wpath,      \* writeJSON: filePath
    wdata,      \* writeJSON: data
    wphase,     \* writeJSON: open, data, rename
    requests,   \* chat-completions requests of the current pipeline attempt, in order
    answers,    \* the parsed answers to them, in order
    delays,     \* sleep(ms) calls of this run, in order
    written,    \* paths this run has written or renamed over
    everLive,   \* every entry the live file has ever held
    before,     \* the files as they were when the run started
    runs,       \* invocations so far
    crashes,    \* invocations that were killed or whose write failed
    uuid,       \* crypto.randomUUID(): the next fresh value
    selCands,   \* selector harness: the catalog
    selHist,    \* selector harness: the history, newest first
    selPicks,   \* selector harness: ids selected so far, in order
    fnArg,      \* function harness: the argument of the function under study
    fnRes       \* function harness: what the call gave (Pending before the call)

vars == <<clock, fs, pc, exitCode, dryRun, apiKey, candidates, history, todayStr,
          candidate, attempts, stage, draft, critique, lesson, kept, archived, wpath,
          wdata, wphase, requests, answers, delays, written, everLive, before, runs,
          crashes, uuid, selCands, selHist, selPicks, fnArg, fnRes>>

runVars == <<clock, fs, pc, exitCode, dryRun, apiKey, candidates, history, todayStr,
             candidate, attempts, stage, draft, critique, lesson, kept, archived, wpath,
             wdata, wphase, requests, answers, delays, written, everLive, before, runs,
             crashes, uuid>>

selVars == <<selCands, selHist, selPicks, fnArg, fnRes>>

----------------------------------------------------------------------------
(* Bounds of the model *)

\* invocations of main() in one behaviour
MaxRuns == 2

\* invocations that may be killed, or have a write fail, in one behaviour
MaxCrashes == 1

\* function harness: lines of a practice text, of every kind
PracticeMax == 3

\* function harness: the largest order value, and topics per category
FlatMax == 2

\* the large catalog holds Limit + CoverExtra candidates
CoverExtra == 2

\* the seeded live history holds up to Limit + ExtraLen entries
ExtraLen == 1

\* selector harness: longest history fed to pickCandidate; its dates range
\* over the MaxHist + 1 days from 2025-01-31 on
MaxHist == 4

----------------------------------------------------------------------------
(* Program constants *)

\* main: rollWindowAndArchive(newHistory, 60, DAILY_ARCH)
Limit == 60

\* generateLesson: if (critique.score < 9)
ReviseBelow == 9

NULL == [null |-> TRUE]

Get(obj, field, default) == IF field \in DOMAIN obj THEN obj[field] ELSE default

----------------------------------------------------------------------------
(* Dates *)

IsLeap(y) == (y % 4 = 0 /\ y % 100 # 0) \/ y % 400 = 0

MonthLen(y, m) ==
    IF m = 2 THEN (IF IsLeap(y) THEN 29 ELSE 28)
    ELSE IF m \in {4, 6, 9, 11} THEN 30 ELSE 31

RECURSIVE CivilFrom(_, _, _)
\* the date n days after the first of month m of year y
CivilFrom(y, m, n) ==
    IF n < MonthLen(y, m) THEN <<y, m, n + 1>>
    ELSE IF m = 12 THEN CivilFrom(y + 1, 1, n - MonthLen(y, m))
    ELSE CivilFrom(y, m + 1, n - MonthLen(y, m))

\* today(date = new Date()) = date.toISOString().slice(0, 10)
today(now) == CivilFrom(2025, 1, now + 30)

RECURSIVE DaysBefore(_, _)
\* days from 2025-01-01 to the first of month m of year y
DaysBefore(y, m) ==
    IF y = 2025 /\ m = 1 THEN 0
    ELSE IF m = 1 THEN DaysBefore(y - 1, 12) + 31
    ELSE DaysBefore(y, m - 1) + MonthLen(y, m - 1)

\* new Date(dateString) as a number (in days): what dateA - dateB compares
DateValue(date) == DaysBefore(date[1], date[2]) + date[3] - 1

\* the order of (a.date || "").localeCompare(b.date || "") on ISO strings
DateKey(date) == IF date = <<>> THEN 0 ELSE date[1] * 10000 + date[2] * 100 + date[3]

\* entry?.date?.slice(0, 7)
pickMonth(entry) ==
    IF Get(entry, "date", <<>>) = <<>> THEN <<>> ELSE SubSeq(entry.date, 1, 2)

----------------------------------------------------------------------------
(* Array.prototype.sort with a numeric comparator: stable *)

\* (a sort that turns the elements of an equal key round)
SortTiesReversed(s, keys) ==
    LET place(i) == 1 + Cardinality({ j \in 1..Len(s) :
                            keys[j] < keys[i] \/ (keys[j] = keys[i] /\ j > i) })
    IN  [ k \in 1..Len(s) |-> s[CHOOSE i \in 1..Len(s) : place(i) = k] ]

\* s sorted ascending by keys[i], ties in their original order: the element
\* at i goes behind those of a smaller key and the earlier ones of an equal key
StableSort(s, keys) ==
    LET place(i) == 1 + Cardinality({ j \in 1..Len(s) :
                            keys[j] < keys[i] \/ (keys[j] = keys[i] /\ j < i) })
    IN  [ k \in 1..Len(s) |-> s[CHOOSE i \in 1..Len(s) : place(i) = k] ]

RECURSIVE Flatten(_)
Flatten(ss) == IF ss = <<>> THEN <<>> ELSE ss[1] \o Flatten(Tail(ss))

SelectSeqIdx(s, Keep(_)) ==
    LET keep == { i \in 1..Len(s) : Keep(s[i]) }
    IN  [ k \in 1..Cardinality(keep) |->
            s[CHOOSE i \in keep : Cardinality({ j \in keep : j < i }) = k - 1] ]

----------------------------------------------------------------------------
(* Topic catalog loader *)

Digits == {"0", "1", "2", "3", "4", "5", "6", "7", "8", "9"}

DigitValue(c) ==
    CASE c = "0" -> 0 [] c = "1" -> 1 [] c = "2" -> 2 [] c = "3" -> 3 [] c = "4" -> 4
      [] c = "5" -> 5 [] c = "6" -> 6 [] c = "7" -> 7 [] c = "8" -> 8 [] c = "9" -> 9

RECURSIVE FirstDigits(_, _, _)
\* label.match(/\d+/): the first maximal run of digits, as a number
\* (found = a digit has been seen; acc = the value so far)
FirstDigits(label, found, acc) ==
    IF label = <<>> THEN [matched |-> found, value |-> acc]
    ELSE IF Head(label) \in Digits
         THEN FirstDigits(Tail(label), TRUE, acc * 10 + DigitValue(Head(label)))
    ELSE IF found THEN [matched |-> TRUE, value |-> acc]
    ELSE FirstDigits(Tail(label), FALSE, 0)

\* (level.level.match(/\d+/) || [0])[0]
LevelNumber(label) ==
    LET m == FirstDigits(label, FALSE, 0) IN IF m.matched THEN m.value ELSE 0

\* level.level.match throws a TypeError when the level has no label
flattenThrows(levels) ==
    \E i \in 1..Len(levels) :
        /\ "categories" \in DOMAIN levels[i]
        /\ "level" \notin DOMAIN levels[i]
        /\ \E j \in 1..Len(levels[i].categories) :
               /\ "topics" \in DOMAIN levels[i].categories[j]
               /\ levels[i].categories[j].topics # <<>>

topicItem(level, cat, topic) ==
    [ id         |-> Get(topic, "topic", ""),
      title      |-> Get(topic, "topic", ""),
      level      |-> level.level,
      category   |-> Get(cat, "category", ""),
      difficulty |-> Get(cat, "difficulty", 0),
      related    |-> Get(topic, "related_topics", <<>>),
      order      |-> LevelNumber(level.level) * 1000
                     + Get(cat, "recommended_order", 0) * 100
                     + Get(topic, "order", 0) ]

categoryItems(level, cat) ==
    IF "topics" \notin DOMAIN cat THEN <<>>
    ELSE [k \in 1..Len(cat.topics) |-> topicItem(level, cat, cat.topics[k])]

levelItems(level) ==
    IF "categories" \notin DOMAIN level THEN <<>>
    ELSE Flatten([j \in 1..Len(level.categories) |->
                      categoryItems(level, level.categories[j])])

flattenTopics(levels) ==
    LET items == Flatten([i \in 1..Len(levels) |-> levelItems(levels[i])])
    IN  StableSort(items, [i \in 1..Len(items) |-> items[i].order])

----------------------------------------------------------------------------
(* Candidate selector *)

\* the entries of the history that name a candidate: entry.meta && entry.meta.id
namedEntries(h) ==
    { i \in 1..Len(h) : "meta" \in DOMAIN h[i] /\ Get(h[i].meta, "id", "") # "" }

\* the entry whose map.set(id, date) is the one that stays: history.forEach
\* visits the entries first to last and a later set overwrites an earlier one
settingEntry(h, id) ==
    CHOOSE i \in namedEntries(h) :
        /\ h[i].meta.id = id
        /\ \A j \in namedEntries(h) : h[j].meta.id = id => j <= i

\* the Map of candidate id -> date that summarizeHistory returns
summarizeHistory(h) ==
    [ id \in { h[i].meta.id : i \in namedEntries(h) } |->
        Get(h[settingEntry(h, id)], "date", <<>>) ]

summaryHas(summary, id) == id \in DOMAIN summary

summaryGet(summary, id) == summary[id]

\* (a selector that walks the catalog from its end)
lastUnused(cands, summary) ==
    LET unused == {i \in 1..Len(cands) : ~summaryHas(summary, cands[i].id)}
    IN  IF unused = {} THEN 0 ELSE CHOOSE i \in unused : \A j \in unused : i >= j

\* for (const candidate of candidates) if (!summary.has(candidate.id)) return candidate
firstUnused(cands, summary) ==
    LET unused == {i \in 1..Len(cands) : ~summaryHas(summary, cands[i].id)}
    IN  IF unused = {} THEN 0 ELSE CHOOSE i \in unused : \A j \in unused : i <= j

pickCandidate(cands, h) ==
    IF Len(cands) = 0 THEN NULL
    ELSE LET summary == summarizeHistory(h)
             next == firstUnused(cands, summary)
             usedCandidates == SelectSeqIdx(cands, LAMBDA c : summaryHas(summary, c.id))
             byDate == StableSort(usedCandidates,
                           [i \in 1..Len(usedCandidates) |->
                               DateValue(summaryGet(summary, usedCandidates[i].id))])
         IN  IF next # 0 THEN cands[next]
             ELSE IF byDate # <<>> THEN byDate[1] ELSE cands[1]

----------------------------------------------------------------------------
(* Lesson coercion.  A text is a sequence of one-character strings; a JS    *)
(* value whose type the code tests is wrapped: [str |-> text] is a string,  *)
(* [list |-> <<...>>] an array.                                             *)

Whitespace == {" ", "\t", "\r", "\n"}

RECURSIVE DropWhile(_, _)
DropWhile(text, set) ==
    IF text # <<>> /\ Head(text) \in set THEN DropWhile(Tail(text), set) ELSE text

RECURSIVE Reverse(_)
Reverse(s) == IF s = <<>> THEN <<>> ELSE Append(Reverse(Tail(s)), Head(s))

\* String.prototype.trim
Trim(text) == Reverse(DropWhile(Reverse(DropWhile(text, Whitespace)), Whitespace))

RECURSIVE SplitLines(_, _)
\* text.split(/\r?\n+/), cur being the piece read so far
SplitLines(text, cur) ==
    IF text = <<>> THEN <<cur>>
    ELSE IF Head(text) = "\n"
         THEN <<cur>> \o SplitLines(DropWhile(text, {"\n"}), <<>>)
    ELSE IF Head(text) = "\r" /\ Len(text) >= 2 /\ text[2] = "\n"
         THEN <<cur>> \o SplitLines(DropWhile(Tail(text), {"\n"}), <<>>)
    ELSE SplitLines(Tail(text), Append(cur, Head(text)))

\* line.replace(/^\s*(?:\d+\.|[-*•])\s*/, "")
StripMarker(line) ==
    LET a == DropWhile(line, Whitespace)
        b == DropWhile(a, Digits)
    IN  IF a # <<>> /\ Head(a) \in {"-", "*", "\\u2022"}
        THEN DropWhile(Tail(a), Whitespace)
        ELSE IF b # a /\ b # <<>> /\ Head(b) = "."
        THEN DropWhile(Tail(b), Whitespace)
        ELSE line

\* splitSteps: .slice(0, 6)
StepCap == 6

FirstN(s, n) == IF Len(s) <= n THEN s ELSE SubSeq(s, 1, n)

splitSteps(text) ==
    IF text = <<>> THEN <<>>
    ELSE LET lines == SplitLines(text, <<>>)
             stripped == [i \in 1..Len(lines) |-> Trim(StripMarker(lines[i]))]
         IN  FirstN(SelectSeqIdx(stripped, LAMBDA l : l # <<>>), StepCap)

practiceItem(item) ==
    IF "str" \in DOMAIN item THEN [title |-> item.str, steps |-> <<>>]
    ELSE [ title |-> Get(item, "title", <<>>),
           steps |-> IF "steps" \notin DOMAIN item THEN <<>>
                     ELSE IF "list" \in DOMAIN item.steps THEN item.steps.list
                     ELSE splitSteps(item.steps.str) ]

normalizePractice(raw) ==
    IF "list" \notin DOMAIN raw THEN <<>>
    ELSE [i \in 1..Len(raw.list) |-> practiceItem(raw.list[i])]

normalizeSources(raw) ==
    IF "list" \notin DOMAIN raw THEN <<>>
    ELSE FirstN([i \in 1..Len(raw.list) |->
                    [ title |-> IF Get(raw.list[i], "title", "") = "" THEN "Source"
                                ELSE raw.list[i].title,
                      url   |-> Get(raw.list[i], "url", "") ]], 6)

\* DIFFICULTY_LABELS[max(1, min(5, round(value)))], "" when the value is no number
mapDifficultyLabel(value) ==
    IF value \notin Int THEN ""
    ELSE LET rounded == IF value < 1 THEN 1 ELSE IF value > 5 THEN 5 ELSE value
         IN  <<"rumen", "jichu", "jinjie", "gaoji", "zhuanjia">>[rounded]

\* id is the value crypto.randomUUID() returns
coerceLesson(cand, content, date, id) ==
    [ id         |-> id,
      date       |-> date,
      topic      |-> IF Get(content, "topic", "") = "" THEN cand.title ELSE content.topic,
      summary    |-> Get(content, "summary", ""),
      key_points |-> Get(content, "key_points", <<>>),
      practice   |-> normalizePractice(Get(content, "practice", NULL)),
      risk_notes |-> Get(content, "risk_notes", ""),
      sources    |-> normalizeSources(Get(content, "sources", NULL)),
      meta       |-> [ id         |-> cand.id,
                       category   |-> cand.category,
                       difficulty |-> cand.difficulty,
                       level      |-> cand.level,
                       related    |-> cand.related,
                       tags       |-> SelectSeqIdx(
                                          <<cand.category, mapDifficultyLabel(cand.difficulty)>>,
                                          LAMBDA t : t # "") ] ]

----------------------------------------------------------------------------
(* Inputs *)

Label(n) == <<"L", "e", "v", "e", "l", " ", n>>

\* data/ai_wealth_topic.json: levels -> categories -> topics, listed out of order
CatalogABC ==
    << [ level |-> Label("2"),
         categories |-> << [ category |-> "invest", difficulty |-> 3, recommended_order |-> 1,
                             topics |-> << [ topic |-> "C", order |-> 1,
                                             related_topics |-> <<"A">> ] >> ] >> ],
       [ level |-> Label("1"),
         categories |-> << [ category |-> "budget", difficulty |-> 1, recommended_order |-> 1,
                             topics |-> << [ topic |-> "B", order |-> 2 ],
                                           [ topic |-> "A", order |-> 1 ] >> ] >> ] >>

\* a catalog one level of which carries no label
CatalogNoLabel ==
    << [ categories |-> << [ category |-> "budget", difficulty |-> 1, recommended_order |-> 1,
                             topics |-> << [ topic |-> "A", order |-> 1 ] >> ] >> ] >>

\* a catalog of n topics in one category, named "1", "2", ... in catalog order
CatalogOf(n) ==
    << [ level |-> Label("1"),
         categories |-> << [ category |-> "budget", difficulty |-> 1, recommended_order |-> 1,
                             topics |-> [ k \in 1..n |->
                                            [ topic |-> ToString(k), order |-> k ] ] ] >> ] >>

Catalogs == {<<>>, CatalogABC, CatalogNoLabel}

\* what a model answers for a draft or a revision
LessonA ==
    [ topic |-> "T", summary |-> "s1", key_points |-> <<"k1", "k2", "k3">>,
      practice |-> [list |-> << [str |-> <<"p">>] >>], risk_notes |-> "r",
      sources |-> [list |-> << [url |-> "u"] >>] ]

LessonB == [ summary |-> "s2" ]

Lessons == {LessonA, LessonB}

----------------------------------------------------------------------------
(* Selector harness: pickCandidate applied to bounded catalogs and        *)
(* histories, each selection fed back as the newest history entry.         *)

TopicIds == {"A", "B", "C"}

SelCandidate(id, k) ==
    [ id |-> id, title |-> id, level |-> Label("1"), category |-> "budget",
      difficulty |-> 1, related |-> <<>>, order |-> 1000 + 100 + k ]

\* catalogs of at most three candidates with distinct ids, in catalog order
SelCatalogs ==
    { [k \in 1..Len(ids) |-> SelCandidate(ids[k], k)] :
        ids \in { s \in UNION { [1..n -> TopicIds] : n \in 0..3 } :
                    \A i, j \in 1..Len(s) : i # j => s[i] # s[j] } }

SelEntry(cand, day, id) == coerceLesson(cand, LessonB, today(day), id)

\* the day of an entry the harness made
SelDay(entry) == DateValue(entry.date) - 30

\* the days of a set, latest first
DaysDesc(ds) ==
    [ k \in 1..Cardinality(ds) |->
        CHOOSE d \in ds : Cardinality({ e \in ds : e > d }) = k - 1 ]

\* histories of the harness: newest first and one entry per day, as the
\* code keeps the live file
SelHistories(cands) ==
    IF cands = <<>> THEN {<<>>}
    ELSE UNION { { [k \in 1..Cardinality(ds) |->
                      SelEntry(cands[f[k]], DaysDesc(ds)[k], 0 - k)] :
                   f \in [1..Cardinality(ds) -> 1..Len(cands)] } :
                 ds \in { x \in SUBSET (0..MaxHist) : Cardinality(x) <= MaxHist } }

SelInit ==
    /\ selCands \in SelCatalogs
    /\ selHist \in SelHistories(selCands)
    /\ selPicks = <<>>
    /\ fnArg = NULL
    /\ fnRes = NULL

\* one selection, fed back as the entry of a later day
SelPick(day) ==
    /\ selCands # <<>>
    /\ Len(selHist) < MaxHist + 1
    /\ selHist # <<>> => day > SelDay(selHist[1])
    /\ LET c == pickCandidate(selCands, selHist)
       IN  /\ selHist' = <<SelEntry(c, day, Len(selPicks) + 1)>> \o selHist
           /\ selPicks' = Append(selPicks, c.id)
    /\ UNCHANGED <<selCands, fnArg, fnRes>>
    /\ UNCHANGED runVars

----------------------------------------------------------------------------
(* Files *)

DAILY == [file |-> "finance-daily", month |-> <<>>, tmp |-> FALSE]

\* path.join(archiveDir, `${month}.json`)
ArchivePath(month) == [file |-> "finance-daily-archive", month |-> month, tmp |-> FALSE]

\* `${filePath}.${process.pid}.tmp`
TmpPath(filePath) == [filePath EXCEPT !.tmp = TRUE]

Months == { SubSeq(today(d), 1, 2) : d \in 0..(Limit + ExtraLen + MaxRuns) }

ArchivePaths == { ArchivePath(m) : m \in Months }

Paths == {DAILY, TmpPath(DAILY)} \cup ArchivePaths \cup { TmpPath(p) : p \in ArchivePaths }

Absent == [state |-> "absent", items |-> <<>>]

Partial == [state |-> "partial", items |-> <<>>]

Complete(items) == [state |-> "complete", items |-> items]

Entries(file) == { file.items[i] : i \in 1..Len(file.items) }

\* readJSON: a missing or blank file reads as the fallback []
readJSON(file) == IF file.state = "complete" THEN file.items ELSE <<>>

\* readJSON: JSON.parse throws on a file cut short
readThrows(file) == file.state = "partial"

\* (a writeJSON that writes the destination in place)
writeInPlace(filePath) == filePath

\* writeJSON: the path fs.writeFile writes to
writeTarget(filePath) == TmpPath(filePath)

\* fs.rename(tmp, filePath)
rename(files, from, to) ==
    IF from = to THEN files ELSE [files EXCEPT ![to] = files[from], ![from] = Absent]

----------------------------------------------------------------------------
(* Rolling window *)

\* (a window one entry too long: items.slice(0, limit + 1))
keptOneMore(items, limit) ==
    IF Len(items) <= limit THEN items
    ELSE SubSeq(items, 1, IF Len(items) < limit + 1 THEN Len(items) ELSE limit + 1)

\* items.slice(0, limit)
keptOf(items, limit) == IF Len(items) <= limit THEN items ELSE SubSeq(items, 1, limit)

\* (an eviction that skips its first entry: items.slice(limit + 1))
archivedButOne(items, limit) ==
    IF Len(items) <= limit + 1 THEN <<>> ELSE SubSeq(items, limit + 2, Len(items))

\* (an eviction that files the whole list: items.slice(0))
archivedAll(items, limit) == IF Len(items) <= limit THEN <<>> ELSE items

\* items.slice(limit)
archivedOf(items, limit) ==
    IF Len(items) <= limit THEN <<>> ELSE SubSeq(items, limit + 1, Len(items))

\* (an append that leaves the file as pushed)
archivePushed(archiveItems, entry) == Append(archiveItems, entry)

\* archiveItems.push(entry); archiveItems.sort(by date)
archiveWith(archiveItems, entry) ==
    LET pushed == Append(archiveItems, entry)
    IN  StableSort(pushed, [i \in 1..Len(pushed) |-> DateKey(Get(pushed[i], "date", <<>>))])

----------------------------------------------------------------------------
(* Pipeline *)

\* (one retry more)
maxRetriesThree(dry) == IF dry THEN 0 ELSE 3

\* const maxRetries = dryRun ? 0 : 2
maxRetries(dry) == IF dry THEN 0 ELSE 2

\* (a backoff of one tier)
backoffFlat(attempt) == 2000

\* backoff(attempt): 2000 ms before the first retry, 5000 ms before the others
backoff(attempt) == IF attempt = 0 THEN 2000 ELSE 5000

\* (a test that lets a missing candidate through)
noCandidateNever(c) == FALSE

\* main: if (!candidate)
noCandidate(c) == c = NULL

\* (a guard that looks at the oldest entry instead of the newest)
alreadyGeneratedOldest(h, t, dry) ==
    Len(h) > 0 /\ Get(h[Len(h)], "date", <<>>) = t /\ ~dry

\* main: history.length > 0 && history[0].date === todayStr && !dryRun
alreadyGenerated(h, t, dry) == Len(h) > 0 /\ Get(h[1], "date", <<>>) = t /\ ~dry

\* a response text: a JSON body, bare or inside a fenced block
Raws(values) ==
    { [fence |-> f, valid |-> TRUE, value |-> v] : f \in {"none", "json", "bare"}, v \in values }
    \cup { [fence |-> f, valid |-> FALSE, value |-> NULL] : f \in {"none", "json"} }

\* parseJSON: JSON.parse(raw), else JSON.parse of what /```json([\s\S]*?)```/ captures
parseJSON(raw) ==
    IF raw.fence = "none" /\ raw.valid THEN [ok |-> TRUE, value |-> raw.value]
    ELSE IF raw.fence = "json"
         THEN (IF raw.valid THEN [ok |-> TRUE, value |-> raw.value]
               ELSE [ok |-> FALSE, value |-> NULL])
    ELSE [ok |-> FALSE, value |-> NULL]

Scores == {8, 9, 10}

\* JSON values of a score: a number, or a string, a boolean, null
Num(n) == [num |-> n]

Str(chars) == [str |-> chars]

Bool(b) == [bool |-> b]

NaN == [nan |-> TRUE]

\* the number a string of digits denotes
DigitsValue(chars) ==
    LET RECURSIVE upto(_)
        upto(k) == IF k = 0 THEN 0 ELSE upto(k - 1) * 10 + DigitValue(chars[k])
    IN  upto(Len(chars))

\* ToNumber of the operand of <: null is 0, true is 1, a string its number
\* or NaN, undefined NaN
ToNumber(v) ==
    IF "num" \in DOMAIN v THEN v
    ELSE IF "null" \in DOMAIN v THEN Num(0)
    ELSE IF "bool" \in DOMAIN v THEN Num(IF v.bool THEN 1 ELSE 0)
    ELSE IF "str" \in DOMAIN v
    THEN (IF v.str = <<>> THEN Num(0)
          ELSE IF \A i \in 1..Len(v.str) : v.str[i] \in Digits THEN Num(DigitsValue(v.str))
          ELSE NaN)
    ELSE NaN

\* v < n, a comparison with NaN being false
lessThan(v, n) == "num" \in DOMAIN ToNumber(v) /\ ToNumber(v).num < n

Critiques == { [critique |-> "c", score |-> Num(n)] : n \in Scores } \cup { [critique |-> "c"] }

\* critiques whose score is no number
OddCritiques ==
    { [critique |-> "c", score |-> v] :
        v \in {NULL, Bool(TRUE), Str(<<"8">>), Str(<<"h", "i", "g", "h">>)} }

Payloads(stg) ==
    IF stg = "Blueprint" THEN { [hook |-> "h"] }
    ELSE IF stg = "Critique" THEN Critiques
    ELSE Lessons

\* what fetch can bring back: a failure (rejection or !response.ok) or a text
Responses(stg) ==
    { [ok |-> FALSE, raw |-> NULL] } \cup { [ok |-> TRUE, raw |-> r] : r \in Raws(Payloads(stg)) }

\* (a gate that also revises at the threshold: critique.score <= 9)
needsReviseAtNine(c) == "score" \in DOMAIN c /\ lessThan(c.score, ReviseBelow + 1)

\* generateLesson: critique.score < 9 (undefined < 9 is false)
needsRevise(c) == "score" \in DOMAIN c /\ lessThan(c.score, ReviseBelow)

\* main, catch (error): count the attempt, then exit or back off
Fail ==
    /\ attempts' = attempts + 1
    /\ stage' = "none"
    /\ IF attempts + 1 > maxRetries(dryRun)
       THEN /\ pc' = "exited"
            /\ exitCode' = 1
            /\ delays' = delays
       ELSE /\ pc' = "sleep"
            /\ exitCode' = exitCode
            /\ delays' = Append(delays, backoff(attempts + 1 - 1))

\* callLLM: throws without a key, else posts the request and awaits the answer
\* (sofar: the requests the attempt has issued before this one)
Call(stg, sofar) ==
    IF ~apiKey
    THEN Fail /\ requests' = sofar
    ELSE /\ pc' = "llm"
         /\ stage' = stg
         /\ requests' = Append(sofar, stg)
         /\ UNCHANGED <<attempts, delays, exitCode>>

\* process.exit(code), or main returning (code 0)
Exit(code) ==
    /\ pc' = "exited"
    /\ exitCode' = code
    /\ stage' = "none"
    /\ UNCHANGED <<attempts, delays, requests>>

writeVars == <<wpath, wdata, wphase>>

----------------------------------------------------------------------------
(* The orchestrator *)

\* node daily.mjs [--dry-run], adv days after the last run
Start(dry, key, adv) ==
    /\ pc \in {"idle", "exited", "killed"}
    /\ runs' = runs + 1
    /\ clock' = clock + adv
    /\ dryRun' = dry
    /\ apiKey' = key
    /\ pc' = "main"
    /\ exitCode' = 0
    /\ candidates' = <<>>
    /\ history' = <<>>
    /\ todayStr' = <<>>
    /\ candidate' = NULL
    /\ attempts' = 0
    /\ stage' = "none"
    /\ draft' = NULL
    /\ critique' = NULL
    /\ lesson' = NULL
    /\ kept' = <<>>
    /\ archived' = <<>>
    /\ wpath' = DAILY
    /\ wdata' = <<>>
    /\ wphase' = "none"
    /\ requests' = <<>>
    /\ answers' = <<>>
    /\ delays' = <<>>
    /\ written' = {}
    /\ before' = fs
    /\ UNCHANGED <<fs, everLive, crashes, uuid, selVars>>

\* an invocation on the same day as the last run or the next
Launch(dry, key, adv) ==
    /\ runs < MaxRuns
    /\ Start(dry, key, adv)

\* main up to the first request: load, same-day guard, selection
Main(topicsRaw) ==
    /\ pc = "main"
    /\ IF flattenThrows(topicsRaw) \/ readThrows(fs[DAILY])
       THEN /\ Exit(1)
            /\ UNCHANGED <<candidates, history, todayStr, candidate>>
       ELSE /\ candidates' = flattenTopics(topicsRaw)
            /\ history' = readJSON(fs[DAILY])
            /\ todayStr' = today(clock)
            /\ IF alreadyGenerated(history', todayStr', dryRun)
               THEN /\ candidate' = NULL
                    /\ Exit(0)
               ELSE /\ candidate' = pickCandidate(candidates', history')
                    /\ IF noCandidate(candidate') THEN Exit(1) ELSE Call("Blueprint", <<>>)
    /\ UNCHANGED <<clock, fs, dryRun, apiKey, draft, critique, lesson, kept, archived,
                   writeVars, answers, written, everLive, before, runs, crashes, uuid, selVars>>

\* generateLesson has its final content: coerceLesson, then leave the loop
Finish(content) ==
    /\ lesson' = coerceLesson(candidate, content, todayStr, uuid)
    /\ uuid' = uuid + 1
    /\ pc' = "update"
    /\ stage' = "none"
    /\ UNCHANGED <<attempts, delays, exitCode, requests>>

\* the answer to the request in flight arrives
Respond(resp) ==
    /\ pc = "llm"
    /\ answers' = IF resp.ok /\ parseJSON(resp.raw).ok
                  THEN Append(answers, parseJSON(resp.raw).value) ELSE answers
    /\ LET parsed == IF resp.ok THEN parseJSON(resp.raw) ELSE [ok |-> FALSE, value |-> NULL]
       IN  IF ~parsed.ok
           THEN /\ Fail
                /\ draft' = NULL
                /\ critique' = NULL
                /\ UNCHANGED <<requests, lesson, uuid>>
           ELSE CASE stage = "Blueprint" ->
                       /\ Call("Draft", requests)
                       /\ UNCHANGED <<draft, critique, lesson, uuid>>
                  [] stage = "Draft" ->
                       /\ draft' = parsed.value
                       /\ Call("Critique", requests)
                       /\ UNCHANGED <<critique, lesson, uuid>>
                  [] stage = "Critique" ->
                       /\ critique' = parsed.value
                       /\ IF needsRevise(parsed.value)
                          THEN Call("Revise", requests) /\ UNCHANGED <<lesson, uuid>>
                          ELSE Finish(draft)
                       /\ UNCHANGED draft
                  [] stage = "Revise" ->
                       /\ Finish(parsed.value)
                       /\ UNCHANGED <<draft, critique>>
    /\ UNCHANGED <<clock, fs, dryRun, apiKey, candidates, history, todayStr, candidate,
                   kept, archived, writeVars, written, everLive, before, runs, crashes, selVars>>

\* (a retry that takes the pipeline up again after the blueprint)
WakeResume ==
    /\ pc = "sleep"
    /\ Call("Draft", <<"Blueprint">>)
    /\ draft' = NULL
    /\ critique' = NULL
    /\ answers' = <<[hook |-> "h"]>>
    /\ UNCHANGED <<clock, fs, dryRun, apiKey, candidates, history, todayStr, candidate,
                   lesson, kept, archived, writeVars, written, everLive, before, runs,
                   crashes, uuid, selVars>>

\* sleep(delay) is over: the loop calls generateLesson again
Wake ==
    /\ pc = "sleep"
    /\ Call("Blueprint", <<>>)
    /\ draft' = NULL
    /\ critique' = NULL
    /\ answers' = <<>>
    /\ UNCHANGED <<clock, fs, dryRun, apiKey, candidates, history, todayStr, candidate,
                   lesson, kept, archived, writeVars, written, everLive, before, runs, crashes,
                   uuid, selVars>>

\* rollWindowAndArchive([lesson, ...history], 60, DAILY_ARCH): the split
Roll ==
    /\ pc = "update"
    /\ LET newHistory == <<lesson>> \o history
       IN  /\ kept' = keptOf(newHistory, Limit)
           /\ archived' = archivedOf(newHistory, Limit)
           /\ pc' = IF Len(newHistory) <= Limit THEN "persist" ELSE "roll"
    /\ UNCHANGED <<clock, fs, exitCode, dryRun, apiKey, candidates, history, todayStr,
                   candidate, attempts, stage, draft, critique, lesson, writeVars,
                   requests, answers, delays, written, everLive, before, runs, crashes, uuid,
                   selVars>>

\* rollWindowAndArchive: one turn of the loop over the evicted entries
RollStep ==
    /\ pc = "roll"
    /\ IF archived = <<>>
       THEN /\ pc' = "persist"
            /\ UNCHANGED <<archived, writeVars, exitCode, stage>>
       ELSE LET entry == Head(archived)
                month == pickMonth(entry)
            IN  IF month = <<>>
                THEN /\ archived' = Tail(archived)
                     /\ UNCHANGED <<pc, writeVars, exitCode, stage>>
                ELSE IF readThrows(fs[ArchivePath(month)])
                THEN /\ pc' = "exited"
                     /\ exitCode' = 1
                     /\ UNCHANGED <<archived, writeVars, stage>>
                ELSE /\ archived' = Tail(archived)
                     /\ wpath' = ArchivePath(month)
                     /\ wdata' = archiveWith(readJSON(fs[ArchivePath(month)]), entry)
                     /\ wphase' = "open"
                     /\ pc' = "write"
                     /\ UNCHANGED <<exitCode, stage>>
    /\ UNCHANGED <<clock, fs, dryRun, apiKey, candidates, history, todayStr, candidate,
                   attempts, draft, critique, lesson, kept, requests, answers, delays,
                   written, everLive, before, runs, crashes, uuid, selVars>>

\* main: if (!dryRun) writeJSON(DAILY, kept) else print the lesson
Persist ==
    /\ pc = "persist"
    /\ IF ~dryRun
       THEN /\ wpath' = DAILY
            /\ wdata' = kept
            /\ wphase' = "open"
            /\ pc' = "write"
            /\ UNCHANGED exitCode
       ELSE /\ pc' = "exited"
            /\ exitCode' = 0
            /\ UNCHANGED writeVars
    /\ UNCHANGED <<clock, fs, dryRun, apiKey, candidates, history, todayStr, candidate,
                   attempts, stage, draft, critique, lesson, kept, archived, requests,
                   answers, delays, written, everLive, before, runs, crashes, uuid, selVars>>

\* writeJSON: fs.writeFile opens its target, which is then empty or cut short
WriteOpen ==
    /\ pc = "write" /\ wphase = "open"
    /\ fs' = [fs EXCEPT ![writeTarget(wpath)] = Partial]
    /\ written' = written \cup {writeTarget(wpath)}
    /\ wphase' = "data"
    /\ everLive' = everLive \cup Entries(fs'[DAILY])
    /\ before' = before
    /\ UNCHANGED <<clock, pc, exitCode, dryRun, apiKey, candidates, history, todayStr,
                   candidate, attempts, stage, draft, critique, lesson, kept, archived,
                   wpath, wdata, requests, answers, delays, runs, crashes, uuid, selVars>>

\* writeJSON: fs.writeFile has written the whole text
WriteData ==
    /\ pc = "write" /\ wphase = "data"
    /\ fs' = [fs EXCEPT ![writeTarget(wpath)] = Complete(wdata)]
    /\ wphase' = "rename"
    /\ everLive' = everLive \cup Entries(fs'[DAILY])
    /\ before' = before
    /\ UNCHANGED <<clock, pc, exitCode, dryRun, apiKey, candidates, history, todayStr,
                   candidate, attempts, stage, draft, critique, lesson, kept, archived,
                   wpath, wdata, requests, answers, delays, written, runs, crashes, uuid,
                   selVars>>

\* writeJSON: fs.rename(tmp, filePath); the caller goes on
Rename ==
    /\ pc = "write" /\ wphase = "rename"
    /\ fs' = rename(fs, writeTarget(wpath), wpath)
    /\ written' = written \cup {wpath}
    /\ wphase' = "none"
    /\ IF wpath = DAILY
       THEN pc' = "exited" /\ exitCode' = 0
       ELSE pc' = "roll" /\ exitCode' = exitCode
    /\ everLive' = everLive \cup Entries(fs'[DAILY])
    /\ before' = before
    /\ UNCHANGED <<clock, dryRun, apiKey, candidates, history, todayStr, candidate,
                   attempts, stage, draft, critique, lesson, kept, archived, wpath,
                   wdata, requests, answers, delays, runs, crashes, uuid, selVars>>

\* writeJSON: fs.writeFile or fs.rename rejects (disk full, permission, I/O
\* error); the error leaves main and main().catch calls process.exit(1)
WriteFail ==
    /\ pc = "write"
    /\ crashes < MaxCrashes
    /\ crashes' = crashes + 1
    /\ pc' = "exited"
    /\ exitCode' = 1
    /\ wphase' = "none"
    /\ UNCHANGED <<clock, fs, dryRun, apiKey, candidates, history, todayStr, candidate,
                   attempts, stage, draft, critique, lesson, kept, archived, wpath,
                   wdata, requests, answers, delays, written, everLive, before, runs,
                   uuid, selVars>>

Running == pc \in {"main", "llm", "sleep", "update", "roll", "persist", "write"}

\* the process is killed (power loss, SIGKILL, runner timeout): its memory
\* is gone, the files stay as they are
Crash ==
    /\ Running
    /\ crashes < MaxCrashes
    /\ crashes' = crashes + 1
    /\ pc' = "killed"
    /\ exitCode' = 0
    /\ candidates' = <<>>
    /\ history' = <<>>
    /\ todayStr' = <<>>
    /\ candidate' = NULL
    /\ attempts' = 0
    /\ stage' = "none"
    /\ draft' = NULL
    /\ critique' = NULL
    /\ lesson' = NULL
    /\ kept' = <<>>
    /\ archived' = <<>>
    /\ wpath' = DAILY
    /\ wdata' = <<>>
    /\ wphase' = "none"
    /\ requests' = <<>>
    /\ answers' = <<>>
    /\ delays' = <<>>
    /\ written' = {}
    /\ UNCHANGED <<clock, fs, everLive, before, dryRun, apiKey, runs, uuid, selVars>>

----------------------------------------------------------------------------
(* Initial states: the live file after n daily runs, n seeded below *)

SeedCandidates == flattenTopics(CatalogABC)

\* a live history of n entries, one per day from the day first on, newest
\* first, the topics taken in turn (the file after n daily runs)
Seeded(n, first) ==
    [ k \in 1..n |->
        coerceLesson(SeedCandidates[((n - k) % Len(SeedCandidates)) + 1], LessonB,
                     today(first + n - k), k - n - 1) ]

SeedLens == {0, Limit, Limit + ExtraLen}

FirstDay == Limit + ExtraLen

RunInit(n) ==
    /\ clock = FirstDay
    /\ fs = [p \in Paths |->
                IF p = DAILY /\ n > 0 THEN Complete(Seeded(n, FirstDay - n)) ELSE Absent]
    /\ everLive = { Seeded(n, FirstDay - n)[k] : k \in 1..n }
    /\ before = fs
    /\ pc = "idle"
    /\ exitCode = 0
    /\ dryRun = FALSE
    /\ apiKey = FALSE
    /\ candidates = <<>>
    /\ history = <<>>
    /\ todayStr = <<>>
    /\ candidate = NULL
    /\ attempts = 0
    /\ stage = "none"
    /\ draft = NULL
    /\ critique = NULL
    /\ lesson = NULL
    /\ kept = <<>>
    /\ archived = <<>>
    /\ wpath = DAILY
    /\ wdata = <<>>
    /\ wphase = "none"
    /\ requests = <<>>
    /\ answers = <<>>
    /\ delays = <<>>
    /\ written = {}
    /\ runs = 0
    /\ crashes = 0
    /\ uuid = 1

SelIdle ==
    /\ selCands = <<>>
    /\ selHist = <<>>
    /\ selPicks = <<>>
    /\ fnArg = NULL
    /\ fnRes = NULL

Init == (\E n \in SeedLens : RunInit(n)) /\ SelIdle

Next ==
    \/ \E dry \in BOOLEAN, key \in BOOLEAN, adv \in {0, 1} : Launch(dry, key, adv)
    \/ \E topicsRaw \in Catalogs : Main(topicsRaw)
    \/ \E resp \in Responses(stage) : Respond(resp)
    \/ Wake
    \/ Roll
    \/ RollStep
    \/ Persist
    \/ WriteOpen
    \/ WriteData
    \/ Rename
    \/ WriteFail
    \/ Crash

Spec == Init /\ [][Next]_vars

\* daily operation: every invocation is a real run (no --dry-run) and none is killed
NextDaily ==
    \/ \E key \in BOOLEAN, adv \in {0, 1} : Launch(FALSE, key, adv)
    \/ \E topicsRaw \in Catalogs : Main(topicsRaw)
    \/ \E resp \in Responses(stage) : Respond(resp)
    \/ Wake
    \/ Roll
    \/ RollStep
    \/ Persist
    \/ WriteOpen
    \/ WriteData
    \/ Rename

SpecDaily == Init /\ [][NextDaily]_vars

\* daily operation in which a run may be stopped at any step
NextInterrupted == NextDaily \/ Crash

SpecInterrupted == Init /\ [][NextInterrupted]_vars

\* a step of the running process: the event loop runs every continuation
\* that is ready, and every request is answered or fails
Step ==
    \/ \E topicsRaw \in Catalogs : Main(topicsRaw)
    \/ \E resp \in Responses(stage) : Respond(resp)
    \/ Wake
    \/ Roll
    \/ RollStep
    \/ Persist
    \/ WriteOpen
    \/ WriteData
    \/ Rename

\* invocations, real or dry, none of them killed
NextLive ==
    \/ \E dry \in BOOLEAN, key \in BOOLEAN, adv \in {0, 1} : Launch(dry, key, adv)
    \/ Step

\* the orchestrator with a process that keeps running until it exits
SpecLive == Init /\ [][NextLive]_vars /\ WF_vars(Step)

\* a catalog larger than the live window by two
CoverCatalog == CatalogOf(Limit + CoverExtra)

\* the answer of a model that never fails and never asks for a revision
CoverResponse(stg) ==
    [ ok |-> TRUE,
      raw |-> [ fence |-> "none", valid |-> TRUE,
                value |-> IF stg = "Blueprint" THEN [hook |-> "h"]
                          ELSE IF stg = "Critique" THEN [critique |-> "c", score |-> Num(ReviseBelow)]
                          ELSE LessonB ] ]

\* consecutive successful daily runs over the large catalog, one a day
NextCover ==
    \/ runs < Limit + CoverExtra /\ Start(FALSE, TRUE, 1)
    \/ Main(CoverCatalog)
    \/ Respond(CoverResponse(stage))
    \/ Roll
    \/ RollStep
    \/ Persist
    \/ WriteOpen
    \/ WriteData
    \/ Rename

CoverInit == RunInit(0) /\ SelIdle

SpecCover == CoverInit /\ [][NextCover]_vars

----------------------------------------------------------------------------
(* Function harness: one call of a function on an argument drawn from a    *)
(* bounded set.                                                            *)

Thrown == [throws |-> TRUE, value |-> NULL]

Returned(v) == [throws |-> FALSE, value |-> v]

\* level labels: with a number, without digits, or missing (<<>>)
FlatLabels == {Label("1"), Label("2"), <<"I", "n", "t", "r", "o">>, <<>>}

\* a topic named after its place in the traversal; order 0 stands for no order
FlatTopic(i, k, ord) ==
    IF ord = 0 THEN [ topic |-> ToString(10 * i + k) ]
    ELSE [ topic |-> ToString(10 * i + k), order |-> ord ]

\* a level of one category; rec 0 stands for no recommended_order, the
\* label <<>> for no label
FlatLevel(i, lab, rec, ords) ==
    LET ts == [ k \in 1..Len(ords) |-> FlatTopic(i, k, ords[k]) ]
        cat == IF rec = 0 THEN [ category |-> "c", difficulty |-> 1, topics |-> ts ]
               ELSE [ category |-> "c", difficulty |-> 1, recommended_order |-> rec,
                      topics |-> ts ]
    IN  IF lab = <<>> THEN [ categories |-> <<cat>> ]
        ELSE [ level |-> lab, categories |-> <<cat>> ]

FlatLevels(i) ==
    { FlatLevel(i, lab, rec, ords) :
        lab \in FlatLabels, rec \in 0..FlatMax,
        ords \in UNION { [1..n -> 0..FlatMax] : n \in 1..FlatMax } }

\* catalogs of one or two levels
FlatCatalogs ==
    { <<l1>> : l1 \in FlatLevels(1) }
    \cup { <<l1, l2>> : l1 \in FlatLevels(1), l2 \in FlatLevels(2) }

FlatInit ==
    /\ RunInit(0)
    /\ selCands = <<>> /\ selHist = <<>> /\ selPicks = <<>>
    /\ fnArg \in FlatCatalogs
    /\ fnRes = NULL

\* const candidates = flattenTopics(topicsRaw)
ApplyFlatten ==
    /\ fnRes = NULL
    /\ fnRes' = IF flattenThrows(fnArg) THEN Thrown ELSE Returned(flattenTopics(fnArg))
    /\ UNCHANGED <<fnArg, selCands, selHist, selPicks>>
    /\ UNCHANGED runVars

SpecFlatten == FlatInit /\ [][ApplyFlatten]_vars

\* lines of a practice text: plain, numbered, bulleted, padded, empty, a
\* marker alone
PracticeLines ==
    { <<"a">>, <<"1", ".", " ", "a">>, <<"-", " ", "b">>, <<" ", "*", " ", "c", " ">>,
      <<>>, <<"2", ".">> }

\* the texts are made of up to PracticeMax lines of any kind, or of
\* StepCap + 1 lines of the first two kinds
PracticeLineSeqs ==
    UNION { [1..n -> PracticeLines] : n \in 1..PracticeMax }
    \cup [1..(StepCap + 1) -> { <<"a">>, <<"1", ".", " ", "a">> }]

\* lines.join(sep)
Join(lines, sep) ==
    LET F[i \in 1..Len(lines)] ==
            IF i = 1 THEN lines[1] ELSE F[i - 1] \o sep \o lines[i]
    IN  F[Len(lines)]

PracticeTexts ==
    { Join(q, sep) : q \in PracticeLineSeqs, sep \in { <<"\n">>, <<"\r", "\n">> } }

\* lesson.practice of a draft: the text itself, or one entry whose steps are the text
PracticeRaws ==
    { [str |-> t] : t \in PracticeTexts }
    \cup { [list |-> << [title |-> <<"T">>, steps |-> [str |-> t]] >>] : t \in PracticeTexts }

PracticeInit ==
    /\ RunInit(0)
    /\ selCands = <<>> /\ selHist = <<>> /\ selPicks = <<>>
    /\ fnArg \in PracticeRaws
    /\ fnRes = NULL

\* const practice = normalizePractice(lesson.practice)
ApplyPractice ==
    /\ fnRes = NULL
    /\ fnRes' = Returned(normalizePractice(fnArg))
    /\ UNCHANGED <<fnArg, selCands, selHist, selPicks>>
    /\ UNCHANGED runVars

SpecPractice == PracticeInit /\ [][ApplyPractice]_vars

----------------------------------------------------------------------------
(* The validation pass (validate.mjs).  fnArg holds the files it reads,     *)
(* fnRes the state of run().                                               *)

\* checks[1].limit
DailyLimit == 60

\* checks[2].limit
PulseLimit == 30

\* const checks = [finance-daily, pulse]
checks == << [name |-> "finance-daily", limit |-> DailyLimit],
             [name |-> "pulse", limit |-> PulseLimit] >>

\* const optionalChecks = [topics]
optionalChecks == << [name |-> "topics"] >>

\* what a data file can be: missing, no JSON, or JSON (an array of len
\* entries or an object) that its schema accepts or not
FileStates(limit) ==
    { [parse |-> "absent", array |-> TRUE, len |-> 0, schemaOk |-> ok] : ok \in BOOLEAN }
    \cup { [parse |-> "bad", array |-> FALSE, len |-> 0, schemaOk |-> FALSE] }
    \cup { [parse |-> "ok", array |-> a, len |-> n, schemaOk |-> ok] :
             a \in BOOLEAN, n \in {0, limit, limit + 1}, ok \in BOOLEAN }

\* validateWithSchema: readJSON throws on a file that is no JSON
validateThrows(file) == file.parse = "bad"

\* validateWithSchema: validate(data), the data of a missing file being []
validateWithSchema(file) == file.schemaOk

\* Array.isArray(data) && check.limit && data.length > check.limit
overLimit(file, limit) == file.array /\ file.len > limit

ValidateInit ==
    /\ RunInit(0)
    /\ selCands = <<>> /\ selHist = <<>> /\ selPicks = <<>>
    /\ fnArg \in [ required : [1..2 -> FileStates(DailyLimit) \cup FileStates(PulseLimit)],
                    optional : { f \in FileStates(0) : f.len = 0 /\ (f.array \/ f.parse = "bad") } ]
    /\ fnArg.required[1] \in FileStates(DailyLimit)
    /\ fnArg.required[2] \in FileStates(PulseLimit)
    /\ fnRes = [pc |-> "checks", at |-> 1, errors |-> <<>>, reported |-> <<>>, warned |-> FALSE,
                exitCode |-> 0]

\* run: one turn of the loop over checks
CheckRequired ==
    /\ fnRes.pc = "checks"
    /\ LET check == checks[fnRes.at]
           file == fnArg.required[fnRes.at]
           after == IF fnRes.at < Len(checks) THEN "checks" ELSE "optional"
       IN  fnRes' =
             IF validateThrows(file)
             THEN [fnRes EXCEPT !.pc = "done", !.exitCode = 1]
             ELSE IF ~validateWithSchema(file)
             THEN [fnRes EXCEPT !.pc = after, !.at = @ + 1,
                                !.errors = Append(@, [name |-> check.name, type |-> "schema"])]
             ELSE IF overLimit(file, check.limit)
             THEN [fnRes EXCEPT !.pc = after, !.at = @ + 1,
                                !.errors = Append(@, [name |-> check.name, type |-> "limit"])]
             ELSE [fnRes EXCEPT !.pc = after, !.at = @ + 1]
    /\ UNCHANGED <<fnArg, selCands, selHist, selPicks>>
    /\ UNCHANGED runVars

\* run: the loop over optionalChecks
CheckOptional ==
    /\ fnRes.pc = "optional"
    /\ LET file == fnArg.optional
       IN  fnRes' =
             IF validateThrows(file)
             THEN [fnRes EXCEPT !.pc = "report", !.warned = TRUE]
             ELSE IF ~validateWithSchema(file)
             THEN [fnRes EXCEPT !.pc = "report",
                                !.errors = Append(@, [name |-> optionalChecks[1].name,
                                                      type |-> "schema"])]
             ELSE [fnRes EXCEPT !.pc = "report"]
    /\ UNCHANGED <<fnArg, selCands, selHist, selPicks>>
    /\ UNCHANGED runVars

\* run: if (errors.length) print every record and set process.exitCode = 1
Report ==
    /\ fnRes.pc = "report"
    /\ fnRes' = IF fnRes.errors # <<>>
                THEN [fnRes EXCEPT !.pc = "done", !.reported = fnRes.errors, !.exitCode = 1]
                ELSE [fnRes EXCEPT !.pc = "done"]
    /\ UNCHANGED <<fnArg, selCands, selHist, selPicks>>
    /\ UNCHANGED runVars

NextValidate == CheckRequired \/ CheckOptional \/ Report

SpecValidate == ValidateInit /\ [][NextValidate]_vars

----------------------------------------------------------------------------
(* The chat proxy worker (deepseek-proxy-worker.js).  fnArg holds the last *)
(* request, fnRes the worker instance: its clock, RATE_MAP, the answer to   *)
(* the last request, and for every client the times of the requests of the *)
(* last WINDOW_MS that got past rateLimit.                                 *)

\* const WINDOW_MS = 60_000
WINDOW_MS == 60000

\* const LIMIT = 20
LIMIT == 20

\* how far past WINDOW_MS the clock runs
MaxOver == 1

\* how many requests over LIMIT a client sends in one window
MaxDenied == 2

\* how many requests the second client sends in one window
MaxOther == 2

\* CF-Connecting-IP
IPs == {"a", "b"}

\* the requests fetch tells apart
RequestKinds == {"health", "preflight", "method", "origin", "chat", "chatBadBody"}

\* Date.now()
ClockValues == {0, WINDOW_MS, WINDOW_MS + MaxOver}

\* rateLimit: the record of ip after the call
rateLimitEntry(map, ip, now) ==
    LET entry == IF map[ip] = NULL THEN [windowStart |-> now, count |-> 0] ELSE map[ip]
        cur == IF now - entry.windowStart > WINDOW_MS
               THEN [windowStart |-> now, count |-> 0]
               ELSE entry
    IN  [cur EXCEPT !.count = @ + 1]

\* rateLimit: return entry.count > LIMIT
limited(entry) == entry.count > LIMIT

\* the times in log less than WINDOW_MS before now
Recent(log, now) == SelectSeq(log, LAMBDA t : now - t < WINDOW_MS)

SendCap(ip) == IF ip = "a" THEN LIMIT + MaxDenied ELSE MaxOther

WorkerInit ==
    /\ RunInit(0)
    /\ selCands = <<>> /\ selHist = <<>> /\ selPicks = <<>>
    /\ fnArg = NULL
    /\ fnRes = [now |-> 0, RATE_MAP |-> [ip \in IPs |-> NULL],
                recent |-> [ip \in IPs |-> <<>>], status |-> 0, upstream |-> FALSE]

\* time passes between two requests
Advance ==
    /\ \E t \in ClockValues :
          /\ t > fnRes.now
          /\ fnRes' = [fnRes EXCEPT !.now = t,
                                    !.recent = [ip \in IPs |-> Recent(@[ip], t)]]
    /\ UNCHANGED <<fnArg, selCands, selHist, selPicks>>
    /\ UNCHANGED runVars

\* fetch: the requests answered before rateLimit is reached
FetchOther(ip, kind) ==
    /\ kind \notin {"chat", "chatBadBody"}
    /\ fnArg' = [ip |-> ip, kind |-> kind]
    /\ fnRes' = [fnRes EXCEPT !.upstream = FALSE,
                              !.status = CASE kind = "health" -> 200
                                           [] kind = "preflight" -> 204
                                           [] kind = "method" -> 405
                                           [] kind = "origin" -> 403]
    /\ UNCHANGED <<selCands, selHist, selPicks>>
    /\ UNCHANGED runVars

\* fetch: POST /chat from an allowed origin
FetchChat(ip, kind) ==
    /\ kind \in {"chat", "chatBadBody"}
    /\ LET entry == rateLimitEntry(fnRes.RATE_MAP, ip, fnRes.now)
       IN  /\ entry.count <= SendCap(ip)
           /\ fnArg' = [ip |-> ip, kind |-> kind]
           /\ fnRes' =
                 IF limited(entry)
                 THEN [fnRes EXCEPT !.RATE_MAP[ip] = entry, !.status = 429,
                                    !.upstream = FALSE]
                 ELSE [fnRes EXCEPT !.RATE_MAP[ip] = entry,
                                    !.recent[ip] = Append(@, fnRes.now),
                                    !.status = IF kind = "chat" THEN 200 ELSE 400,
                                    !.upstream = (kind = "chat")]
    /\ UNCHANGED <<selCands, selHist, selPicks>>
    /\ UNCHANGED runVars

NextWorker ==
    \/ Advance
    \/ \E ip \in IPs, kind \in RequestKinds : FetchOther(ip, kind)
    \/ \E ip \in IPs, kind \in RequestKinds : FetchChat(ip, kind)

SpecWorker == WorkerInit /\ [][NextWorker]_vars

----------------------------------------------------------------------------
(* rollWindowAndArchive on its own: main is about to call it with the item *)
(* list fnArg, which may hold entries without a date or with an empty one, *)
(* over an archive directory that may hold month files already.           *)

\* the entry without its date field
WithoutDate(entry) == [ f \in DOMAIN entry \ {"date"} |-> entry[f] ]

\* the entry as kind says: as it is, with date "", or with no date
Dated(entry, kind) ==
    IF kind = "none" THEN WithoutDate(entry)
    ELSE IF kind = "empty" THEN [entry EXCEPT !.date = <<>>]
    ELSE entry

\* how many items the list holds: under, at and over the limit
RollLens == {Limit - 1, Limit, Limit + 1, Limit + ExtraLen + 2}

\* item lists: n daily entries newest first, the ones past the limit with
\* or without a date
RollItems ==
    UNION { { [ k \in 1..n |-> IF k <= Limit THEN Seeded(n, 0)[k]
                               ELSE Dated(Seeded(n, 0)[k], kinds[k]) ] :
              kinds \in [ (Limit + 1)..n -> {"iso", "empty", "none"} ] } :
            n \in RollLens }

\* an entry a month file holds before the call
Filed(day) == coerceLesson(SeedCandidates[1], LessonB, today(day), 0 - day - 100)

\* archive directories: the month of day 1 and the month of day Limit may
\* hold a file of one entry
RollDirs ==
    { [ p \in Paths |->
          IF p = ArchivePath(SubSeq(today(1), 1, 2)) /\ early THEN Complete(<<Filed(Limit + 1)>>)
          ELSE IF p = ArchivePath(SubSeq(today(Limit), 1, 2)) /\ late THEN Complete(<<Filed(Limit)>>)
          ELSE Absent ] :
      early \in BOOLEAN, late \in BOOLEAN }

RollInit ==
    /\ clock = FirstDay
    /\ fnArg \in RollItems
    /\ fs \in RollDirs
    /\ everLive = {}
    /\ before = fs
    /\ pc = "update"
    /\ exitCode = 0
    /\ dryRun = FALSE
    /\ apiKey = TRUE
    /\ candidates = SeedCandidates
    /\ history = Tail(fnArg)
    /\ todayStr = today(clock)
    /\ candidate = SeedCandidates[1]
    /\ attempts = 0
    /\ stage = "none"
    /\ draft = NULL
    /\ critique = NULL
    /\ lesson = Head(fnArg)
    /\ kept = <<>>
    /\ archived = <<>>
    /\ wpath = DAILY
    /\ wdata = <<>>
    /\ wphase = "none"
    /\ requests = <<>>
    /\ answers = <<>>
    /\ delays = <<>>
    /\ written = {}
    /\ runs = 1
    /\ crashes = 0
    /\ uuid = 1
    /\ selCands = <<>> /\ selHist = <<>> /\ selPicks = <<>>
    /\ fnRes = NULL

NextRoll ==
    \/ Roll
    \/ RollStep
    \/ WriteOpen
    \/ WriteData
    \/ Rename

SpecRoll == RollInit /\ [][NextRoll]_vars

----------------------------------------------------------------------------
(* parseJSON on response texts.  A text is a sequence of tokens: a fence    *)
(* (three backticks), the word json, a newline, a JSON object, other text. *)

MaxTokens == 6

TokFence == [t |-> "fence"]

TokJson == [t |-> "json"]

TokNewline == [t |-> "newline"]

TokObject(v) == [t |-> "object", v |-> v]

TokOther == [t |-> "other"]

Tokens == {TokFence, TokJson, TokNewline, TokOther} \cup { TokObject(v) : v \in Lessons }

Texts == UNION { [1..n -> Tokens] : n \in 0..MaxTokens }

\* JSON.parse(text): one JSON value with white space around it
JSONparse(text) ==
    LET body == SelectSeq(text, LAMBDA tok : tok.t # "newline")
    IN  IF Len(body) = 1 /\ body[1].t = "object"
        THEN [ok |-> TRUE, value |-> body[1].v]
        ELSE [ok |-> FALSE, value |-> NULL]

\* raw.match(/```json([\s\S]*?)```/): the leftmost fence followed by json
\* that has a fence after it, and what stands between the two
fenceMatch(text) ==
    LET opens == { i \in 1..(Len(text) - 2) :
                     /\ text[i].t = "fence" /\ text[i + 1].t = "json"
                     /\ \E j \in (i + 2)..Len(text) : text[j].t = "fence" }
    IN  IF opens = {} THEN [found |-> FALSE, group |-> <<>>]
        ELSE LET i == CHOOSE x \in opens : \A y \in opens : x <= y
                 closes == { j \in (i + 2)..Len(text) : text[j].t = "fence" }
                 j == CHOOSE x \in closes : \A y \in closes : x <= y
             IN  [found |-> TRUE, group |-> SubSeq(text, i + 2, j - 1)]

\* parseJSON(raw) on a text
parseJSONText(text) ==
    IF JSONparse(text).ok THEN JSONparse(text)
    ELSE IF fenceMatch(text).found THEN JSONparse(fenceMatch(text).group)
    ELSE [ok |-> FALSE, value |-> NULL]

\* the text of a response of the pipeline model
TextOf(raw) ==
    LET body == IF raw.valid THEN <<TokObject(raw.value)>> ELSE <<TokOther>>
    IN  IF raw.fence = "none" THEN body
        ELSE IF raw.fence = "json"
        THEN <<TokFence, TokJson, TokNewline>> \o body \o <<TokNewline, TokFence>>
        ELSE <<TokFence, TokNewline>> \o body \o <<TokNewline, TokFence>>

ParseInit ==
    /\ RunInit(0)
    /\ selCands = <<>> /\ selHist = <<>> /\ selPicks = <<>>
    /\ fnArg \in Texts
    /\ fnRes = NULL

\* const blueprint = parseJSON(blueprintRaw), and the like
ApplyParse ==
    /\ fnRes = NULL
    /\ fnRes' = parseJSONText(fnArg)
    /\ UNCHANGED <<fnArg, selCands, selHist, selPicks>>
    /\ UNCHANGED runVars

SpecParse == ParseInit /\ [][ApplyParse]_vars

----------------------------------------------------------------------------
(* Two invocations of daily.mjs at once, processes 1 and 2, over one data  *)
(* directory.  fnArg holds the live history they start from, fnRes the     *)
(* files and the two processes.                                           *)

Pids == {1, 2}

\* a path of the shared directory; owner is the pid in the name of a
\* temporary file, 0 for the file itself
SharedPath(filePath, owner) ==
    [file |-> filePath.file, month |-> filePath.month, owner |-> owner]

\* (a temporary file without the pid in its name: `${filePath}.tmp`)
tmpShared(filePath, pid) == SharedPath(filePath, 1)

\* const tmp = `${filePath}.${process.pid}.tmp`
tmpOf(filePath, pid) == SharedPath(filePath, pid)

SharedPaths ==
    { SharedPath(p, owner) : p \in {DAILY} \cup ArchivePaths, owner \in {0} \cup Pids }

Live == SharedPath(DAILY, 0)

\* a process before main has run
Fresh ==
    [pc |-> "main", exitCode |-> 0, loaded |-> FALSE, history |-> <<>>, kept |-> <<>>,
     archived |-> <<>>, wpath |-> Live, wdata |-> <<>>]

OverlapInit ==
    /\ RunInit(0)
    /\ selCands = <<>> /\ selHist = <<>> /\ selPicks = <<>>
    /\ fnArg \in { Seeded(n, FirstDay - n) : n \in {0, Limit} }
    /\ fnRes = [ files |-> [ p \in SharedPaths |->
                               IF p = Live /\ fnArg # <<>> THEN Complete(fnArg) ELSE Absent ],
                 procs |-> [ pid \in Pids |-> Fresh ] ]

Ended(proc, code) == [proc EXCEPT !.pc = "exited", !.exitCode = code]

\* main up to the same-day guard
Load(pid) ==
    LET proc == fnRes.procs[pid]
        live == fnRes.files[Live]
        h == readJSON(live)
    IN  /\ proc.pc = "main"
        /\ fnRes' =
             [fnRes EXCEPT !.procs[pid] =
                 IF readThrows(live) THEN Ended(proc, 1)
                 ELSE IF alreadyGenerated(h, today(clock), FALSE)
                 THEN Ended([proc EXCEPT !.history = h], 0)
                 ELSE [proc EXCEPT !.pc = "generate", !.history = h, !.loaded = TRUE]]
        /\ UNCHANGED <<fnArg, selCands, selHist, selPicks>>
        /\ UNCHANGED runVars

\* main from the selection to the split of rollWindowAndArchive; the
\* pipeline gives a content or fails for good
Generate(pid, content) ==
    LET proc == fnRes.procs[pid]
        cand == pickCandidate(SeedCandidates, proc.history)
        new == <<coerceLesson(cand, content, today(clock), pid)>> \o proc.history
    IN  /\ proc.pc = "generate"
        /\ fnRes' =
             [fnRes EXCEPT !.procs[pid] =
                 IF content = NULL THEN Ended(proc, 1)
                 ELSE [proc EXCEPT !.pc = IF Len(new) <= Limit THEN "persist" ELSE "roll",
                                   !.kept = keptOf(new, Limit),
                                   !.archived = archivedOf(new, Limit)]]
        /\ UNCHANGED <<fnArg, selCands, selHist, selPicks>>
        /\ UNCHANGED runVars

\* rollWindowAndArchive: one turn of the loop over the evicted entries
ArchiveStep(pid) ==
    LET proc == fnRes.procs[pid]
        entry == Head(proc.archived)
        target == SharedPath(ArchivePath(pickMonth(entry)), 0)
    IN  /\ proc.pc = "roll"
        /\ fnRes' =
             [fnRes EXCEPT !.procs[pid] =
                 IF proc.archived = <<>> THEN [proc EXCEPT !.pc = "persist"]
                 ELSE IF pickMonth(entry) = <<>>
                 THEN [proc EXCEPT !.archived = Tail(proc.archived)]
                 ELSE IF readThrows(fnRes.files[target]) THEN Ended(proc, 1)
                 ELSE [proc EXCEPT !.pc = "open",
                                   !.archived = Tail(proc.archived),
                                   !.wpath = target,
                                   !.wdata = archiveWith(readJSON(fnRes.files[target]), entry)]]
        /\ UNCHANGED <<fnArg, selCands, selHist, selPicks>>
        /\ UNCHANGED runVars

\* main: writeJSON(DAILY, kept)
PersistLive(pid) ==
    LET proc == fnRes.procs[pid]
    IN  /\ proc.pc = "persist"
        /\ fnRes' = [fnRes EXCEPT !.procs[pid] =
                        [proc EXCEPT !.pc = "open", !.wpath = Live, !.wdata = proc.kept]]
        /\ UNCHANGED <<fnArg, selCands, selHist, selPicks>>
        /\ UNCHANGED runVars

\* writeJSON: fs.writeFile opens the temporary file, which is then empty
OpenTmp(pid) ==
    LET proc == fnRes.procs[pid]
    IN  /\ proc.pc = "open"
        /\ fnRes' = [fnRes EXCEPT !.procs[pid].pc = "data",
                                  !.files[tmpOf(proc.wpath, pid)] = Partial]
        /\ UNCHANGED <<fnArg, selCands, selHist, selPicks>>
        /\ UNCHANGED runVars

\* writeJSON: fs.writeFile has written the whole text
FillTmp(pid) ==
    LET proc == fnRes.procs[pid]
    IN  /\ proc.pc = "data"
        /\ fnRes' = [fnRes EXCEPT !.procs[pid].pc = "rename",
                                  !.files[tmpOf(proc.wpath, pid)] = Complete(proc.wdata)]
        /\ UNCHANGED <<fnArg, selCands, selHist, selPicks>>
        /\ UNCHANGED runVars

\* writeJSON: fs.rename(tmp, filePath), which fails if tmp is gone
RenameTmp(pid) ==
    LET proc == fnRes.procs[pid]
        tmp == tmpOf(proc.wpath, pid)
    IN  /\ proc.pc = "rename"
        /\ fnRes' =
             IF fnRes.files[tmp].state = "absent"
             THEN [fnRes EXCEPT !.procs[pid] = Ended(proc, 1)]
             ELSE [fnRes EXCEPT !.files = [@ EXCEPT ![proc.wpath] = fnRes.files[tmp],
                                                    ![tmp] = Absent],
                                !.procs[pid] = IF proc.wpath = Live THEN Ended(proc, 0)
                                               ELSE [proc EXCEPT !.pc = "roll"]]
        /\ UNCHANGED <<fnArg, selCands, selHist, selPicks>>
        /\ UNCHANGED runVars

NextOverlap ==
    \E pid \in Pids :
        \/ Load(pid)
        \/ \E content \in Lessons \cup {NULL} : Generate(pid, content)
        \/ ArchiveStep(pid)
        \/ PersistLive(pid)
        \/ OpenTmp(pid)
        \/ FillTmp(pid)
        \/ RenameTmp(pid)

SpecOverlap == OverlapInit /\ [][NextOverlap]_vars

----------------------------------------------------------------------------
(* Daily runs whose requests are all answered by a bare JSON text, the     *)
(* critique with a score of any kind or with none.                        *)

CritiqueResponses(stg) ==
    { [ok |-> TRUE, raw |-> [fence |-> "none", valid |-> TRUE, value |-> v]] :
        v \in IF stg = "Critique" THEN Critiques \cup OddCritiques ELSE Payloads(stg) }

NextCritique ==
    \/ Launch(FALSE, TRUE, 1)
    \/ Main(CatalogABC)
    \/ \E resp \in CritiqueResponses(stage) : Respond(resp)
    \/ Roll
    \/ Persist
    \/ WriteOpen
    \/ WriteData
    \/ Rename

CritiqueInit == RunInit(0) /\ SelIdle

SpecCritique == CritiqueInit /\ [][NextCritique]_vars

----------------------------------------------------------------------------
(* The chat client (cath-ai page script).  fnArg says whether web search   *)
(* is enabled and configured, fnRes holds state.streaming, the send        *)
(* button, the status line and the sendChat calls made so far.            *)

MaxSubmits == 3

ChatInit ==
    /\ RunInit(0)
    /\ selCands = <<>> /\ selHist = <<>> /\ selPicks = <<>>
    /\ fnArg \in [webSearch : BOOLEAN]
    /\ fnRes = [streaming |-> FALSE, sendDisabled |-> FALSE, status |-> "", calls |-> <<>>,
                upstream |-> 0]

\* a sendChat call has not finished
Unfinished(call) == call.pc \in {"search", "stream"}

\* streamCompletion up to its fetch: state.streaming = true, then the request
startStream(chat) ==
    [chat EXCEPT !.streaming = TRUE, !.sendDisabled = TRUE, !.status = "thinking",
                 !.upstream = @ + 1]

\* sendChat from the submit event to its first await that waits for the
\* network (busy: an earlier call has not finished when this one starts)
Submit(text) ==
    LET busy == \E i \in 1..Len(fnRes.calls) : Unfinished(fnRes.calls[i])
        call(at) == [pc |-> at, busy |-> busy]
    IN  /\ Len(fnRes.calls) < MaxSubmits
        /\ fnRes' =
             IF text = ""
             THEN [fnRes EXCEPT !.status = "type", !.calls = Append(@, call("returned"))]
             ELSE IF fnRes.streaming
             THEN [fnRes EXCEPT !.status = "wait", !.calls = Append(@, call("rejected"))]
             ELSE IF fnArg.webSearch
             THEN [fnRes EXCEPT !.status = "searching", !.calls = Append(@, call("search"))]
             ELSE [startStream(fnRes) EXCEPT !.calls = Append(@, call("stream"))]
        /\ UNCHANGED <<fnArg, selCands, selHist, selPicks>>
        /\ UNCHANGED runVars

\* fetchWebContext is back, with findings or without: sendChat goes on to
\* streamCompletion
SearchDone(i) ==
    /\ i \in 1..Len(fnRes.calls)
    /\ fnRes.calls[i].pc = "search"
    /\ fnRes' = [startStream(fnRes) EXCEPT !.calls[i].pc = "stream"]
    /\ UNCHANGED <<fnArg, selCands, selHist, selPicks>>
    /\ UNCHANGED runVars

\* the stream of call i ends or fails: catch and finally of sendChat
StreamEnd(i, ok) ==
    /\ i \in 1..Len(fnRes.calls)
    /\ fnRes.calls[i].pc = "stream"
    /\ fnRes' = [fnRes EXCEPT !.calls[i].pc = "done", !.streaming = FALSE,
                              !.sendDisabled = FALSE,
                              !.status = IF ok THEN "ready" ELSE "wrong"]
    /\ UNCHANGED <<fnArg, selCands, selHist, selPicks>>
    /\ UNCHANGED runVars

NextChat ==
    \/ \E text \in {"", "hi"} : Submit(text)
    \/ \E i \in 1..MaxSubmits : SearchDone(i)
    \/ \E i \in 1..MaxSubmits, ok \in BOOLEAN : StreamEnd(i, ok)

SpecChat == ChatInit /\ [][NextChat]_vars

\* the selector harness
SelNext == \E day \in 0..MaxHist : SelPick(day)

SelSpecInit == RunInit(0) /\ SelInit

SpecPick == SelSpecInit /\ [][SelNext]_vars

----------------------------------------------------------------------------
(* Candidate selector: properties *)

Min(a, b) == IF a <= b THEN a ELSE b

\* the harness started from the empty history: every entry was fed by a pick
FromEmpty == Len(selPicks) = Len(selHist)

\* C1: from the empty history, feeding every selection back, the first
\* Len(catalog) selections are the catalog's candidates in catalog order,
\* each once, so none is selected twice before all have been selected
C1_SequentialCoverage ==
    FromEmpty =>
        \A i \in 1..Min(Len(selPicks), Len(selCands)) : selPicks[i] = selCands[i].id

\* the catalog of three was covered and the fourth selection is a repeat
C1_Witness ==
    /\ FromEmpty
    /\ Len(selCands) = 3
    /\ Len(selPicks) = 4
    /\ selPicks[4] \in { selPicks[i] : i \in 1..3 }

\* the most recent use of a candidate: the newest date among its entries
LastUsed(h, id) ==
    LET ds == { DateValue(h[i].date) : i \in { j \in 1..Len(h) : h[j].meta.id = id } }
    IN  CHOOSE d \in ds : \A e \in ds : e <= d

AllUsed(cands, h) ==
    \A k \in 1..Len(cands) : \E i \in 1..Len(h) : h[i].meta.id = cands[k].id

\* the candidate the recycling rule names: oldest most recent use, ties to
\* the earlier catalog position
LeastRecent(cands, h) ==
    CHOOSE k \in 1..Len(cands) :
        \A j \in 1..Len(cands) :
            \/ LastUsed(h, cands[k].id) < LastUsed(h, cands[j].id)
            \/ LastUsed(h, cands[k].id) = LastUsed(h, cands[j].id) /\ k <= j

\* C2: when every candidate occurs in the history, the selection is the
\* candidate whose most recent use is the oldest, ties to catalog order
C2_RecyclingOrder ==
    (selPicks # <<>> /\ AllUsed(selCands, Tail(selHist))) =>
        selPicks[Len(selPicks)] = selCands[LeastRecent(selCands, Tail(selHist))].id

----------------------------------------------------------------------------
(* Orchestrator: properties *)

\* main has loaded the history and has not been killed
Loaded == pc \in {"llm", "sleep", "update", "roll", "persist", "write", "exited"}

\* a real run has got past its start with the live file, which it has not
\* written, holding an entry of today as its newest
SameDay ==
    /\ pc \notin {"idle", "main", "killed"}
    /\ ~dryRun
    /\ written = {}
    /\ fs[DAILY].state = "complete"
    /\ fs[DAILY].items # <<>>
    /\ Get(fs[DAILY].items[1], "date", <<>>) = today(clock)

\* C3: a real run that finds the newest live entry dated today issues no
\* request, makes no attempt, writes no file and exits with code 0, whatever
\* the catalog
C3_SameDayGuard ==
    SameDay =>
        /\ pc = "exited"
        /\ exitCode = 0
        /\ requests = <<>>
        /\ attempts = 0
        /\ delays = <<>>

\* C4: once a run has replaced the live file, the file holds at most 60
\* entries, whatever the length of the history the run loaded
C4_BoundedHistory ==
    DAILY \in written =>
        /\ fs[DAILY].state = "complete"
        /\ Len(fs[DAILY].items) <= Limit

\* a run that loaded more than 60 entries has replaced the live file
C4_Witness == DAILY \in written /\ Len(history) > Limit /\ pc = "exited"

Count(e, items) == Cardinality({ i \in 1..Len(items) : items[i] = e })

Evicted == everLive \ Entries(fs[DAILY])

\* C5: in daily operation every entry that has left the live file is held
\* once by the archive file of its own year-month and by no other file
C5_EvictedArchivedOnce ==
    \A e \in Evicted :
        \A m \in Months :
            Count(e, fs[ArchivePath(m)].items) = IF m = pickMonth(e) THEN 1 ELSE 0

\* entries of two different months have been evicted
C5_Witness ==
    /\ pc = "exited"
    /\ \E e1, e2 \in Evicted : pickMonth(e1) # pickMonth(e2)

\* C6: the live file is never cut short, and it changes only in the rename
\* of writeJSON, from its previous content to the whole new content
C6_AtomicPersistence ==
    [][ /\ fs'[DAILY].state # "partial"
        /\ \/ fs'[DAILY] = fs[DAILY]
           \/ /\ pc = "write" /\ wphase = "rename" /\ wpath = DAILY
              /\ fs'[DAILY] = Complete(wdata) ]_vars

\* a run was killed between the write of the temporary file and the rename
C6_Witness ==
    /\ pc = "killed"
    /\ fs[TmpPath(DAILY)].state = "complete"
    /\ fs[TmpPath(DAILY)] # fs[DAILY]
    /\ fs[DAILY].state = "complete"

Score(c) == Get(c, "score", Num(ReviseBelow)).num

AllStages == <<"Blueprint", "Draft", "Critique", "Revise">>

\* C7: with a score >= 9 the attempt issues no revise request and its lesson
\* is the coerced draft; with a score < 9 it issues exactly one revise
\* request and its lesson is the coerced revision; the lesson is what the
\* live file gets
C7_ReviseGating ==
    /\ (critique # NULL /\ "score" \in DOMAIN critique /\ critique.score.num >= ReviseBelow) =>
           /\ requests = SubSeq(AllStages, 1, 3)
           /\ lesson # NULL =>
                  lesson = coerceLesson(candidate, answers[2], todayStr, lesson.id)
    /\ (critique # NULL /\ "score" \in DOMAIN critique /\ critique.score.num < ReviseBelow) =>
           /\ requests = AllStages
           /\ lesson # NULL =>
                  /\ Len(answers) = 4
                  /\ lesson = coerceLesson(candidate, answers[4], todayStr, lesson.id)
    /\ (lesson # NULL /\ DAILY \in written) => fs[DAILY].items[1] = lesson

\* a revision that differs from its draft was persisted
C7_Witness ==
    /\ DAILY \in written
    /\ critique # NULL /\ Score(critique) < ReviseBelow
    /\ Len(answers) = 4 /\ answers[4] # answers[2]
    /\ fs[DAILY].items[1] = coerceLesson(candidate, answers[4], todayStr, lesson.id)

\* C8: a dry run writes no file
C8_DryRunNeverPersists == (dryRun /\ Running) => written = {}


\* the pipeline attempts the run has started
Started == attempts + (IF pc = "llm" \/ lesson # NULL THEN 1 ELSE 0)

\* C9: a real run starts the pipeline at most 3 times, every attempt with the
\* candidate and the history picked and loaded at the start; a successful
\* attempt ends the loop; after 3 failures the process has exited with a
\* non-zero code; and every run ends
C9_BoundedRetries ==
    /\ [](~dryRun =>
            /\ Started <= 3
            /\ attempts = 3 => (pc = "exited" /\ exitCode # 0 /\ lesson = NULL)
            /\ lesson # NULL => pc \notin {"llm", "sleep"}
            /\ pc \in {"llm", "sleep"} =>
                   /\ history = readJSON(fs[DAILY])
                   /\ candidate = pickCandidate(candidates, history))
    /\ [][(pc \in {"llm", "sleep"}) =>
              (candidate' = candidate /\ history' = history)]_vars
    /\ ((pc = "main" /\ ~dryRun) ~> (pc = "exited"))

\* a real run has failed three times and exited, having slept twice
C9_Witness ==
    /\ ~dryRun /\ apiKey
    /\ pc = "exited" /\ exitCode = 1
    /\ attempts = 3 /\ Len(delays) = 2

\* C10: without a credential, a run that reaches generation makes one
\* attempt, sleeps for no backoff and exits with a non-zero code
C10_ConfigErrorNoRetry ==
    (~apiKey /\ candidate # NULL /\ Loaded) =>
        /\ pc = "exited"
        /\ exitCode # 0
        /\ attempts = 1
        /\ delays = <<>>


\* C11: when a run has exited with a non-zero code, the live file and every
\* archive month file are what they were when the run started
C11_NoPartialWrite ==
    (pc = "exited" /\ exitCode # 0) =>
        /\ fs[DAILY] = before[DAILY]
        /\ \A m \in Months : fs[ArchivePath(m)] = before[ArchivePath(m)]


\* the entries of a file are dated, newest first, one per calendar date
NewestFirst(items) ==
    /\ \A i \in 1..Len(items) : Get(items[i], "date", <<>>) # <<>>
    /\ \A i \in 1..Len(items) - 1 :
           DateValue(items[i].date) > DateValue(items[i + 1].date)

\* C12: whatever runs there have been (real or dry, ended, failed or
\* killed, on the same day or the next), the live file is whole, holds at
\* most one entry per calendar date and is ordered newest first
C12_LiveHistoryInvariant ==
    /\ fs[DAILY].state # "partial"
    /\ NewestFirst(fs[DAILY].items)

\* two runs have each put an entry on top of the live file, and a further
\* run of the second day would find the guard
C12_Witness ==
    /\ runs = 2 /\ pc = "exited" /\ DAILY \in written
    /\ Len(fs[DAILY].items) >= 2
    /\ fs[DAILY].items[1].id > 0 /\ fs[DAILY].items[2].id > 0
    /\ fs[DAILY].items[1].date = today(clock)


\* the entries of the live file, past and present, that were made for a candidate
GeneratedFor(id) == { e \in everLive : e.meta.id = id }

\* C13: over consecutive successful daily runs from an empty live history,
\* when a candidate is generated a second time every candidate of the
\* catalog has been generated before
C13_FullCoverage ==
    \A e2 \in everLive :
        (\E e1 \in GeneratedFor(e2.meta.id) : DateValue(e1.date) < DateValue(e2.date)) =>
            \A k \in 1..Len(candidates) :
                \E e \in GeneratedFor(candidates[k].id) :
                    DateValue(e.date) < DateValue(e2.date)


\* main has loaded an empty candidate list and the same-day guard has not fired
NoCandidate ==
    /\ pc \notin {"idle", "main", "killed"}
    /\ todayStr # <<>>
    /\ candidates = <<>>
    /\ ~alreadyGenerated(history, todayStr, dryRun)

\* C14: with an empty flattened catalog and no same-day short-circuit the
\* run has exited with a non-zero code at once: no request, no attempt, no
\* backoff delay, no file written
C14_NoCandidateError ==
    NoCandidate =>
        /\ pc = "exited"
        /\ exitCode # 0
        /\ requests = <<>>
        /\ answers = <<>>
        /\ attempts = 0
        /\ delays = <<>>
        /\ written = {}
        /\ fs = before

\* a real run and a non-empty live history whose newest entry is not of today
C14_Witness ==
    /\ NoCandidate
    /\ ~dryRun
    /\ history # <<>>
    /\ exitCode = 1


IsPrefix(s, t) == Len(s) <= Len(t) /\ s = SubSeq(t, 1, Len(s))

\* the stage in flight fails in this step: the attempt is counted as failed
StageFails == pc = "llm" /\ attempts' = attempts + 1

\* C15: the requests of an attempt are Blueprint, Draft, Critique, Revise in
\* that order; when a stage fails no further request of the attempt is
\* made and nothing of the attempt is kept or written; the retry starts
\* with the Blueprint request
C15_PipelineFailure ==
    /\ [](/\ IsPrefix(requests, AllStages)
          /\ pc = "llm" => (requests # <<>> /\ stage = requests[Len(requests)]
                            /\ Len(answers) = Len(requests) - 1)
          /\ pc = "sleep" => (lesson = NULL /\ draft = NULL /\ critique = NULL
                              /\ written = {} /\ fs = before)
          /\ (pc = "exited" /\ attempts > maxRetries(dryRun)) =>
                 (lesson = NULL /\ written = {} /\ fs = before))
    /\ [][StageFails =>
              /\ requests' = requests
              /\ answers' = answers
              /\ lesson' = NULL /\ draft' = NULL /\ critique' = NULL
              /\ pc' \in {"sleep", "exited"}
              /\ fs' = fs]_vars
    /\ [][(pc = "sleep" /\ pc' = "llm") =>
              (requests' = <<"Blueprint">> /\ answers' = <<>>)]_vars

\* an attempt has failed and the retry, begun again with the Blueprint
\* request, has gone on to its draft request
C15_Witness ==
    /\ pc = "llm" /\ attempts = 1
    /\ requests = <<"Blueprint", "Draft">>


----------------------------------------------------------------------------
(* Topic catalog loader: properties *)

\* the places <<level, category, topic>> of the topics of a catalog
Places(levels) ==
    { <<i, j, k>> \in (1..Len(levels)) \X (1..1) \X (1..FlatMax) :
        k <= Len(levels[i].categories[j].topics) }

TopicAt(levels, t) == levels[t[1]].categories[t[2]].topics[t[3]]

\* the number a level label of the harness carries, 0 when it carries none
LabelNumber(level) ==
    IF "level" \notin DOMAIN level THEN 0
    ELSE IF level.level = Label("1") THEN 1
    ELSE IF level.level = Label("2") THEN 2
    ELSE 0

\* level_number * 1000 + category_recommended_order * 100 + topic_order
OrderKey(levels, t) ==
    LabelNumber(levels[t[1]]) * 1000
    + Get(levels[t[1]].categories[t[2]], "recommended_order", 0) * 100
    + Get(TopicAt(levels, t), "order", 0)

\* t comes before u in the traversal
Earlier(t, u) ==
    \/ t[1] < u[1]
    \/ t[1] = u[1] /\ t[2] < u[2]
    \/ t[1] = u[1] /\ t[2] = u[2] /\ t[3] < u[3]

PlaceOf(levels, id) == CHOOSE t \in Places(levels) : TopicAt(levels, t).topic = id

\* C16: what flattenTopics returns holds every topic once, each with the
\* key level_number * 1000 + recommended_order * 100 + topic_order (0 for a
\* missing topic order), ascending by key, topics of an equal key in
\* traversal order
C16_FlattenOrder ==
    (fnRes # NULL /\ ~fnRes.throws) =>
        LET out == fnRes.value
        IN  /\ Len(out) = Cardinality(Places(fnArg))
            /\ \A t \in Places(fnArg) : \E n \in 1..Len(out) : out[n].id = TopicAt(fnArg, t).topic
            /\ \A n \in 1..Len(out) : out[n].order = OrderKey(fnArg, PlaceOf(fnArg, out[n].id))
            /\ \A n, m \in 1..Len(out) :
                   n < m =>
                       \/ out[n].order < out[m].order
                       \/ /\ out[n].order = out[m].order
                          /\ Earlier(PlaceOf(fnArg, out[n].id), PlaceOf(fnArg, out[m].id))

\* two levels were put in order by their keys, against the traversal, with
\* two topics of an equal key and a topic without order among them
C16_Witness ==
    /\ fnRes # NULL /\ ~fnRes.throws
    /\ Len(fnRes.value) = 4
    /\ Earlier(PlaceOf(fnArg, fnRes.value[4].id), PlaceOf(fnArg, fnRes.value[1].id))
    /\ fnRes.value[1].order = fnRes.value[2].order
    /\ \E t \in Places(fnArg) : "order" \notin DOMAIN TopicAt(fnArg, t)


\* C17: flattenTopics raises no error on a catalog with a missing or
\* malformed label, recommended_order or order; every topic is returned and
\* the missing part counts 0 in its key
C17_FlattenNeverFails ==
    fnRes # NULL =>
        /\ ~fnRes.throws
        /\ Len(fnRes.value) = Cardinality(Places(fnArg))
        /\ \A n \in 1..Len(fnRes.value) :
               fnRes.value[n].order = OrderKey(fnArg, PlaceOf(fnArg, fnRes.value[n].id))


----------------------------------------------------------------------------
(* Lesson coercion: properties *)

\* a step is not empty, has no blank at either end and no marker in front
CleanStep(step) ==
    /\ step # <<>>
    /\ Head(step) \notin Whitespace \cup {"-", "*"} \cup Digits
    /\ step[Len(step)] \notin Whitespace

\* the text of a practice value of the harness
PracticeText(raw) == IF "str" \in DOMAIN raw THEN raw.str ELSE raw.list[1].steps.str

\* what a line of the harness says once its marker and blanks are taken off
LineContent(line) ==
    IF line \in { <<"a">>, <<"1", ".", " ", "a">> } THEN <<"a">>
    ELSE IF line = <<"-", " ", "b">> THEN <<"b">>
    ELSE IF line = <<" ", "*", " ", "c", " ">> THEN <<"c">>
    ELSE <<>>

\* the steps a text stands for: the contents of its lines, the empty ones
\* left out, the first StepCap of them
ExpectedSteps(text) ==
    LET q == CHOOSE q \in PracticeLineSeqs :
                 \E sep \in { <<"\n">>, <<"\r", "\n">> } : Join(q, sep) = text
        contents == [i \in 1..Len(q) |-> LineContent(q[i])]
    IN  FirstN(SelectSeqIdx(contents, LAMBDA c : c # <<>>), StepCap)

\* when the text comes as the steps of one practice entry, the entry keeps
\* its title and gets the steps the text stands for
StepsOfEntrySplit ==
    (fnRes # NULL /\ "list" \in DOMAIN fnArg) =>
        /\ Len(fnRes.value) = 1
        /\ fnRes.value[1].title = <<"T">>
        /\ fnRes.value[1].steps = ExpectedSteps(PracticeText(fnArg))

\* C18: a practice given as a text of newline-separated, numbered or
\* bulleted lines is coerced into one practice entry with at most 6 steps,
\* each trimmed, without its marker and not empty, in the order of the lines
C18_PracticeNormalization ==
    (fnRes # NULL /\ "str" \in DOMAIN fnArg /\ ExpectedSteps(PracticeText(fnArg)) # <<>>) =>
        /\ Len(fnRes.value) = 1
        /\ Len(fnRes.value[1].steps) <= StepCap
        /\ \A i \in 1..Len(fnRes.value[1].steps) : CleanStep(fnRes.value[1].steps[i])
        /\ fnRes.value[1].steps = ExpectedSteps(PracticeText(fnArg))


----------------------------------------------------------------------------
(* Validation pass: properties *)

\* the required file k fails its schema, or holds more entries than its limit
FailsCheck(k) ==
    /\ ~validateThrows(fnArg.required[k])
    /\ \/ ~validateWithSchema(fnArg.required[k])
       \/ overLimit(fnArg.required[k], checks[k].limit)

\* C19: the validator changes no file, and when it is done every required
\* file that fails its schema or exceeds its limit has made the outcome
\* non-zero and has a reported record with its name and the type of failure
C19_ValidationPass ==
    /\ fs = [p \in Paths |-> Absent]
    /\ fnRes.pc = "done" =>
           \A k \in 1..Len(checks) :
               FailsCheck(k) =>
                   /\ fnRes.exitCode # 0
                   /\ \E i \in 1..Len(fnRes.reported) :
                          /\ fnRes.reported[i].name = checks[k].name
                          /\ fnRes.reported[i].type =
                                 IF ~validateWithSchema(fnArg.required[k]) THEN "schema"
                                 ELSE "limit"

\* the same for the runs in which every required file can be parsed
ReadableFilesReported ==
    (fnRes.pc = "done" /\ \A j \in 1..Len(checks) : ~validateThrows(fnArg.required[j])) =>
        \A k \in 1..Len(checks) :
            FailsCheck(k) =>
                /\ fnRes.exitCode # 0
                /\ \E i \in 1..Len(fnRes.reported) :
                       /\ fnRes.reported[i].name = checks[k].name
                       /\ fnRes.reported[i].type \in {"schema", "limit"}

----------------------------------------------------------------------------
(* Chat proxy: properties *)

\* the last request was a POST /chat that rateLimit counted over LIMIT
OverLimit ==
    /\ fnArg # NULL
    /\ fnArg.kind \in {"chat", "chatBadBody"}
    /\ fnRes.RATE_MAP[fnArg.ip].count > LIMIT

\* C20: for every client at most LIMIT of the requests of the last WINDOW_MS
\* got past rateLimit, and a request counted over LIMIT is answered 429
\* without a call upstream
C20_RateLimit ==
    /\ \A ip \in IPs : Len(fnRes.recent[ip]) <= LIMIT
    /\ OverLimit => (fnRes.status = 429 /\ ~fnRes.upstream)

\* what rateLimit does bound: the requests let through since windowStart
PassedInWindow(ip) ==
    IF fnRes.RATE_MAP[ip] = NULL THEN <<>>
    ELSE SelectSeq(fnRes.recent[ip], LAMBDA t : t >= fnRes.RATE_MAP[ip].windowStart)

FixedWindowBound ==
    /\ \A ip \in IPs : Len(PassedInWindow(ip)) <= LIMIT
    /\ OverLimit => (fnRes.status = 429 /\ ~fnRes.upstream)

----------------------------------------------------------------------------
(* History summary: properties *)

\* the place of the first entry of the history that names id
FirstOccurrence(h, id) ==
    CHOOSE i \in namedEntries(h) :
        /\ h[i].meta.id = id
        /\ \A j \in namedEntries(h) : h[j].meta.id = id => i <= j

\* C21: summarizeHistory maps every id of the newest-first history to the
\* date of the first entry that names it, its most recent use
C21_SummaryMostRecent ==
    \A id \in DOMAIN summarizeHistory(selHist) :
        summarizeHistory(selHist)[id] = selHist[FirstOccurrence(selHist, id)].date

\* what the Map holds instead: the date of the last entry that names the id
SummaryOldest ==
    \A id \in DOMAIN summarizeHistory(selHist) :
        \A i \in namedEntries(selHist) :
            selHist[i].meta.id = id =>
                DateValue(summarizeHistory(selHist)[id]) <= DateValue(selHist[i].date)

----------------------------------------------------------------------------
(* Backoff: properties *)

\* C22: the run has slept once for every failed attempt but the final one,
\* so once before every retry and never before the first attempt or after
\* the final failure; the first delay is 2000 ms and every later one 5000 ms
C22_TwoTierBackoff ==
    /\ Len(delays) = IF attempts > maxRetries(dryRun) THEN attempts - 1 ELSE attempts
    /\ \A k \in 1..Len(delays) : delays[k] = IF k = 1 THEN 2000 ELSE 5000
    /\ (pc = "llm" /\ attempts > 0) => Len(delays) = attempts

\* a real run is in its second retry, after a short and a long delay
C22_Witness ==
    /\ ~dryRun /\ apiKey
    /\ pc = "llm" /\ attempts = 2
    /\ delays = <<2000, 5000>>

----------------------------------------------------------------------------
(* Archive: properties *)

\* the entries are in ascending order of date
Ascending(items) ==
    \A i \in 1..(Len(items) - 1) :
        DateKey(Get(items[i], "date", <<>>)) <= DateKey(Get(items[i + 1], "date", <<>>))

\* C23: every archive month file that rollWindowAndArchive has written holds
\* its entries in ascending order of date
C23_ArchiveOrdering ==
    \A m \in Months :
        fs[ArchivePath(m)].state = "complete" => Ascending(fs[ArchivePath(m)].items)

\* the call has written a month file that holds entries of two days
C23_Witness ==
    \E m \in Months :
        /\ ArchivePath(m) \in written
        /\ fs[ArchivePath(m)].state = "complete"
        /\ \E e1, e2 \in Entries(fs[ArchivePath(m)]) : e1.date # e2.date

\* the year-months of the entries the call evicts
EvictedMonths ==
    { pickMonth(fnArg[k]) : k \in (Limit + 1)..Len(fnArg) } \ {<<>>}

\* the month files of the evicted entries, with the temporary files through
\* which writeJSON writes them
EvictedFiles ==
    { ArchivePath(m) : m \in EvictedMonths } \cup { TmpPath(ArchivePath(m)) : m \in EvictedMonths }

\* C24: the call writes no file but the month files of the entries it
\* evicts, every other file is as it was before the call, and a list of at
\* most Limit items is returned as it is with no file written
C24_ArchiveFrame ==
    /\ written \subseteq EvictedFiles
    /\ \A p \in Paths \ EvictedFiles : fs[p] = before[p]
    /\ Len(fnArg) <= Limit =>
           /\ written = {}
           /\ fs = before
           /\ pc = "persist" => kept = fnArg

\* the call has returned after writing a month file, next to a month file
\* of a month none of its evicted entries belongs to
C24_Witness ==
    /\ pc = "persist"
    /\ written # {}
    /\ \E p \in ArchivePaths \ EvictedFiles : fs[p].state = "complete"

\* the item is in the returned live set or in an archive month file
Held(item) ==
    \/ \E i \in 1..Len(kept) : kept[i] = item
    \/ \E m \in Months : item \in Entries(fs[ArchivePath(m)])

\* C26: when the call has returned, every item of the list it was given is
\* in the returned live set or in an archive month file
C26_NoEntryLost ==
    pc = "persist" => \A k \in 1..Len(fnArg) : Held(fnArg[k])

\* the same for the items that have a date
DatedEntriesHeld ==
    pc = "persist" =>
        \A k \in 1..Len(fnArg) : pickMonth(fnArg[k]) # <<>> => Held(fnArg[k])

----------------------------------------------------------------------------
(* Response parsing: properties *)

\* the text is the object v in a fenced block, the fence with or without
\* the label json
FencedObject(text, v) ==
    text \in { <<TokFence, TokJson, TokNewline, TokObject(v), TokNewline, TokFence>>,
               <<TokFence, TokNewline, TokObject(v), TokNewline, TokFence>> }

\* the text is no JSON, and nothing that stands between two of its fences,
\* with or without a leading label, is JSON either
NoJSONInside(text) ==
    /\ ~JSONparse(text).ok
    /\ \A i \in 1..Len(text), j \in 1..Len(text) :
           (i < j /\ text[i].t = "fence" /\ text[j].t = "fence") =>
               /\ ~JSONparse(SubSeq(text, i + 1, j - 1)).ok
               /\ text[i + 1].t = "json" => ~JSONparse(SubSeq(text, i + 2, j - 1)).ok

\* C25: a JSON object in a fenced block, labelled or not, is parsed to that
\* object, and a text that is no JSON with or without its fence is a parse
\* failure
C25_FencedParsing ==
    fnRes # NULL =>
        /\ \A v \in Lessons : FencedObject(fnArg, v) => fnRes = [ok |-> TRUE, value |-> v]
        /\ NoJSONInside(fnArg) => ~fnRes.ok

\* what holds: the fence labelled json is stripped, and a text that is no
\* JSON with or without its fence is a parse failure
LabelledFenceParsed ==
    fnRes # NULL =>
        /\ \A v \in Lessons :
               fnArg = <<TokFence, TokJson, TokNewline, TokObject(v), TokNewline, TokFence>>
                   => fnRes = [ok |-> TRUE, value |-> v]
        /\ NoJSONInside(fnArg) => ~fnRes.ok

\* the pipeline model's parseJSON is parseJSON on the text of the response
ParseAgrees ==
    \A raw \in Raws(Lessons) : parseJSON(raw) = parseJSONText(TextOf(raw))

\* a real run has ended with the live file replaced
Succeeded == pc = "exited" /\ exitCode = 0 /\ ~dryRun /\ DAILY \in written

\* C27: after a successful run every entry that has left the live file is
\* held exactly once by the month file of its year-month, also when an
\* earlier run was stopped between archiving and the live write
C27_InterruptedNoDuplicates ==
    Succeeded =>
        \A e \in Evicted : Count(e, fs[ArchivePath(pickMonth(e))].items) = 1

----------------------------------------------------------------------------
(* Overlapping invocations: properties *)

\* both invocations loaded the live history before either replaced it, and
\* both have finished, one of them at least with the live file written
Overlapped ==
    /\ \A pid \in Pids :
           /\ fnRes.procs[pid].pc = "exited"
           /\ fnRes.procs[pid].loaded
           /\ fnRes.procs[pid].history = fnArg
    /\ \E pid \in Pids : fnRes.procs[pid].exitCode = 0

DatedToday(items) ==
    { i \in 1..Len(items) : Get(items[i], "date", <<>>) = today(clock) }

\* C28: once two overlapping invocations of one day have finished, the live
\* file is whole and is what one of them wrote: one entry of the day, at
\* most Limit entries
C28_OverlappingInvocations ==
    Overlapped =>
        /\ fnRes.files[Live].state = "complete"
        /\ \E pid \in Pids :
               /\ fnRes.procs[pid].exitCode = 0
               /\ fnRes.files[Live].items = fnRes.procs[pid].kept
        /\ Cardinality(DatedToday(fnRes.files[Live].items)) = 1
        /\ Len(fnRes.files[Live].items) <= Limit

\* both invocations have written the live file, with different lessons
C28_Witness ==
    /\ Overlapped
    /\ \A pid \in Pids : fnRes.procs[pid].exitCode = 0
    /\ fnRes.procs[1].kept # fnRes.procs[2].kept
    /\ Len(fnArg) = Limit

----------------------------------------------------------------------------
(* Critique score: properties *)

\* the critique of the attempt has no score, or one that is no number
NoUsableScore ==
    /\ critique # NULL
    /\ "score" \in DOMAIN critique => "num" \notin DOMAIN critique.score

\* the attempt did not fail, issued no revise request, and its final
\* content is the draft
DraftIsFinal ==
    /\ attempts = 0
    /\ requests = SubSeq(AllStages, 1, 3)
    /\ lesson # NULL
    /\ lesson = coerceLesson(candidate, answers[2], todayStr, lesson.id)

\* C29: when the critique has no score or a score that is no number, the
\* attempt does not fail, issues no revise request and ends with the draft
\* as its final content
C29_CritiqueWithoutScore == NoUsableScore => DraftIsFinal

\* the same for a critique without a score and for a score that is no
\* number after conversion
ScoreNaNKeepsDraft ==
    (NoUsableScore /\ ToNumber(Get(critique, "score", NaN)) = NaN) => DraftIsFinal

----------------------------------------------------------------------------
(* Chat client: properties *)

\* the streaming completions in flight
InFlight == { i \in 1..Len(fnRes.calls) : fnRes.calls[i].pc = "stream" }

\* C30: at most one streaming completion is in flight, and a submit made
\* while an earlier sendChat had not finished was rejected and has started
\* no request
C30_SingleInFlight ==
    /\ Cardinality(InFlight) <= 1
    /\ \A i \in 1..Len(fnRes.calls) :
           (fnRes.calls[i].busy /\ fnRes.calls[i].pc # "returned") =>
               fnRes.calls[i].pc = "rejected"

\* the same without web search, where sendChat reaches streamCompletion
\* before another event is handled
SingleInFlightWithoutSearch == ~fnArg.webSearch => C30_SingleInFlight

====
